---------------------------- MODULE Spec2Model ----------------------------
(***************************************************************************)
(* A model of the key extraction engine of megacloud-key-extractor.        *)
(*                                                                         *)
(* JavaScript strings are sequences of UTF-16 code units (naturals), so    *)
(* that String.fromCharCode, split/reverse/join, the hex test and length   *)
(* are computed rather than assumed; identifier and property names are     *)
(* such sequences too.  Extractor type tags are TLA+ strings.  The syntax  *)
(* tree is a tree of records whose "t" field is the Babel node type.       *)
(***************************************************************************)
EXTENDS Integers, Sequences, FiniteSets, TLC

VARIABLES
  vKey,                  \* validator run: the candidate handed to validateKey
  vRes,                  \* validator run: the record validateKey returned
  prog,                  \* the body of the Program node (sequence of statements)
  pc,                    \* position in the Program visitor of the plugin
  idx,                   \* index, in the pre-order node list, of the next visit
  stringLiterals,        \* Map of the direct scan: name -> hex-looking literal
  foundKeys,
  nonHexCandidates,
  wrongLengthCandidates,
  objectPropertiesMap,
  aliasMap,
  potentialKeyArrays,
  segmentFunctionsMap,
  skippedFunctions,
  produced,              \* history: the strings derived so far, with their type
  stdout,                \* lines written by console.log in printResults
  silentMode,            \* deobfuscate.js: --silent was given
  DEBUG,                 \* centralDebug.js: the flag setDebug sets
  DEBUG_CONFIG,          \* config/debug.js: ENABLED (here Enabled) and the category flags
  stage,                 \* deobfuscate.js: the statement the script is at
  inputCode,             \* the text read from the input file
  intermediateCode,      \* the code handed from one pass to the next
  events,                \* history: passes started and ended, plugin visits
  console,               \* lines written through console.log/error so far
  exitStatus,            \* -1 while the script runs, then its exit status
  outputFile,            \* the content of output.js
  tree,                  \* simplifier run: the body of the Program node
  applied,               \* simplifier run: the plugins applied so far
  calls                  \* alias run: the calls made so far, with their results

valVars == <<vKey, vRes>>
listVars == <<foundKeys, nonHexCandidates, wrongLengthCandidates>>
tableVars == <<objectPropertiesMap, aliasMap, potentialKeyArrays,
               segmentFunctionsMap, skippedFunctions>>
runVars == <<prog, pc, idx, stringLiterals, listVars, tableVars, produced, stdout>>
pipeVars == <<silentMode, DEBUG, DEBUG_CONFIG, stage, inputCode, intermediateCode,
              events, console, exitStatus, outputFile>>
simpVars == <<tree, applied, calls>>
vars == <<valVars, runVars, pipeVars, simpVars>>

-----------------------------------------------------------------------------
(* Bounds of the model.                                                    *)

\* longest candidate handed to the validator in the validator run
MaxKeyLen == 65

-----------------------------------------------------------------------------
(* JavaScript values.                                                      *)

\* the value of a property that an object (or a primitive string) lacks
Undefined == <<-1>>

\* null where a string is expected
Null == <<-2>>

\* null where an object is expected
NullObj == [isNull |-> TRUE]

\* the text console.log writes for undefined
UndefinedText == <<117, 110, 100, 101, 102, 105, 110, 101, 100>>

\* s repeated cyclically up to length n
Pattern(seed, n) == [i \in 1..n |-> seed[((i - 1) % Len(seed)) + 1]]

\* seeds: "a", "1a", "F0b" are hexadecimal; "g" and "az" are not
Seeds == {<<97>>, <<49, 97>>, <<70, 48, 98>>, <<103>>, <<97, 122>>}

-----------------------------------------------------------------------------
(* validators/keyValidator.js                                              *)

VALID_KEY_LENGTHS == {16, 24, 32, 48, 51, 64}

\* the character class [0-9a-fA-F]
IsHexChar(c) == c \in (48..57) \cup (65..70) \cup (97..102)

\* /^[0-9a-fA-F]*$/.test(s)
IsHexStar(s) == \A i \in 1..Len(s) : IsHexChar(s[i])

\* /^[0-9a-fA-F]+$/.test(s) and /^[0-9a-f]+$/i.test(s)
IsHexPlus(s) == Len(s) > 0 /\ IsHexStar(s)

validateKey_OnlyLength(keyString, sourceName, type) ==
  IF Len(keyString) \in VALID_KEY_LENGTHS
  THEN [isValidKey |-> TRUE, key |-> keyString, source |-> sourceName, type |-> type]
  ELSE [isWrongLength |-> TRUE, key |-> keyString, source |-> sourceName,
        type |-> type, actualLength |-> Len(keyString),
        expectedLength |-> VALID_KEY_LENGTHS]

validateKey(keyString, sourceName, type) ==
  LET isHex == IsHexStar(keyString)
      isValidLength == Len(keyString) \in VALID_KEY_LENGTHS
  IN IF isValidLength
     THEN IF isHex
          THEN [isValidKey |-> TRUE, key |-> keyString, source |-> sourceName,
                type |-> type]
          ELSE [isNonHex |-> TRUE, key |-> keyString, source |-> sourceName,
                type |-> type]
     ELSE [isWrongLength |-> TRUE, key |-> keyString, source |-> sourceName,
           type |-> type, actualLength |-> Len(keyString),
           expectedLength |-> VALID_KEY_LENGTHS]

\* JavaScript truthiness of a flag an object may lack
Flag(obj, f) == f \in DOMAIN obj /\ obj[f] = TRUE

-----------------------------------------------------------------------------
(* Syntax trees.  A node is a record with the Babel node type in "t"; an   *)
(* absent child (node.init === null, no alternate) is NoNode.              *)

NoNode == [t |-> "null"]

Str(s) == [t |-> "StringLiteral", value |-> s]
Num(n) == [t |-> "NumericLiteral", value |-> n]
Id(n) == [t |-> "Identifier", name |-> n]
\* o.p and o["p"] / o[p]
Dot(o, p) == [t |-> "MemberExpression", object |-> o, property |-> p, computed |-> FALSE]
Sub(o, p) == [t |-> "MemberExpression", object |-> o, property |-> p, computed |-> TRUE]
Call(f, args) == [t |-> "CallExpression", callee |-> f, arguments |-> args]
Bin(op, l, r) == [t |-> "BinaryExpression", operator |-> op, left |-> l, right |-> r]
Spread(a) == [t |-> "SpreadElement", argument |-> a]
Arr(els) == [t |-> "ArrayExpression", elements |-> els]
Prop(k, v) == [t |-> "ObjectProperty", key |-> k, value |-> v]
Obj(props) == [t |-> "ObjectExpression", properties |-> props]
Assign(l, r) == [t |-> "AssignmentExpression", left |-> l, right |-> r]
Block(stmts) == [t |-> "BlockStatement", body |-> stmts]
Return(e) == [t |-> "ReturnStatement", argument |-> e]
ExprStmt(e) == [t |-> "ExpressionStatement", expression |-> e]
If(c, a, b) == [t |-> "IfStatement", test |-> c, consequent |-> a, alternate |-> b]
FuncExpr(body) == [t |-> "FunctionExpression", params |-> <<>>, body |-> body]
Arrow(body) == [t |-> "ArrowFunctionExpression", params |-> <<>>, body |-> body]
FuncDecl(name, body) == [t |-> "FunctionDeclaration", id |-> Id(name), params |-> <<>>, body |-> body]
Declarator(name, init) == [t |-> "VariableDeclarator", id |-> Id(name), init |-> init]
\* var name = init;
Var(name, init) == [t |-> "VariableDeclaration", declarations |-> <<Declarator(name, init)>>]

IsT(n, type) == n.t = type
IsFunction(n) ==
  n.t \in {"FunctionDeclaration", "FunctionExpression", "ArrowFunctionExpression"}

\* the children of a node, in Babel's visiting order
Children(n) ==
  LET opt(c) == IF c.t = "null" THEN <<>> ELSE <<c>>
  IN CASE n.t = "VariableDeclaration" -> n.declarations
       [] n.t = "VariableDeclarator" -> <<n.id>> \o opt(n.init)
       [] n.t = "FunctionDeclaration" -> <<n.id>> \o n.params \o <<n.body>>
       [] n.t \in {"FunctionExpression", "ArrowFunctionExpression"} ->
            n.params \o <<n.body>>
       [] n.t = "BlockStatement" -> n.body
       [] n.t = "ReturnStatement" -> opt(n.argument)
       [] n.t = "ExpressionStatement" -> <<n.expression>>
       [] n.t = "IfStatement" -> <<n.test, n.consequent>> \o opt(n.alternate)
       [] n.t = "AssignmentExpression" -> <<n.left, n.right>>
       [] n.t = "CallExpression" -> <<n.callee>> \o n.arguments
       [] n.t = "MemberExpression" -> <<n.object, n.property>>
       [] n.t = "BinaryExpression" -> <<n.left, n.right>>
       [] n.t = "SpreadElement" -> <<n.argument>>
       [] n.t = "ArrayExpression" -> n.elements
       [] n.t = "ObjectExpression" -> n.properties
       [] n.t = "ObjectProperty" -> <<n.key, n.value>>
       [] OTHER -> <<>>

\* the nodes of a list of subtrees, in pre-order (the order of a traversal)
RECURSIVE Flat(_)
Flat(ns) ==
  IF Len(ns) = 0 THEN <<>>
  ELSE <<Head(ns)>> \o Flat(Children(Head(ns))) \o Flat(Tail(ns))

\* the proper descendants of a node, in pre-order (what path.traverse visits)
Desc(n) == Flat(Children(n))

\* the subsequence of the nodes whose type is one of types
RECURSIVE OfTypes(_, _)
OfTypes(ns, types) ==
  IF Len(ns) = 0 THEN <<>>
  ELSE (IF Head(ns).t \in types THEN <<Head(ns)>> ELSE <<>>)
       \o OfTypes(Tail(ns), types)

-----------------------------------------------------------------------------
(* JavaScript strings and objects used as dictionaries.                    *)

S_join == <<106, 111, 105, 110>>
S_split == <<115, 112, 108, 105, 116>>
S_reverse == <<114, 101, 118, 101, 114, 115, 101>>
S_map == <<109, 97, 112>>
S_String == <<83, 116, 114, 105, 110, 103>>
S_fromCharCode == <<102, 114, 111, 109, 67, 104, 97, 114, 67, 111, 100, 101>>

\* s.split('').reverse().join('')
Reverse(s) == [i \in 1..Len(s) |-> s[Len(s) + 1 - i]]

\* parts.join('')
RECURSIVE JoinAll(_)
JoinAll(parts) ==
  IF Len(parts) = 0 THEN <<>> ELSE Head(parts) \o JoinAll(Tail(parts))

\* a dictionary is a function from the keys it holds
EmptyMap == [k \in {} |-> Null]
Has(m, k) == k \in DOMAIN m
Put(m, k, v) == [x \in (DOMAIN m) \cup {k} |-> IF x = k THEN v ELSE m[x]]

\* obj[f] for a property the object may lack; a primitive string pushed
\* into a list is the record [prim |-> s], which has no property at all
GetProp(obj, f) == IF f \in DOMAIN obj THEN obj[f] ELSE Undefined

\* obj.type, with a tag no extractor uses standing for undefined
UndefinedTag == "<undefined>"
GetType(obj) == IF "type" \in DOMAIN obj THEN obj.type ELSE UndefinedTag

\* the three result lists, passed around together, and with them the
\* history of the strings the scans and extractors derived (not a value
\* of the program: it records what was handed to classification)
Lists(f, n, w, p) == [found |-> f, nonHex |-> n, wrongLength |-> w, produced |-> p]

Produce(L, value, type) ==
  [L EXCEPT !.produced = Append(@, [value |-> value, type |-> type])]

MaxOf(S) == CHOOSE x \in S : \A y \in S : y <= x
MinOf(S) == CHOOSE x \in S : \A y \in S : x <= y

-----------------------------------------------------------------------------
(* core/keyExtractionPlugin.js: the direct scan.                           *)

isMemberProperty(node, name) ==
  IF ~IsT(node, "MemberExpression") THEN FALSE
  ELSE IF node.computed /\ IsT(node.property, "StringLiteral")
       THEN node.property.value = name
       ELSE IF ~node.computed /\ IsT(node.property, "Identifier")
            THEN node.property.name = name
            ELSE FALSE

\* the subtree size of a node: the node at position p spans p .. p+Size-1
Size(n) == 1 + Len(Desc(n))

\* p lies inside a function whose node is in nodes
InFunction(nodes, p) ==
  \E q \in 1..(p - 1) : IsFunction(nodes[q]) /\ q + Size(nodes[q]) > p

\* path.scope.getBinding(varName) for a name of the program scope: the
\* position of its first declaration outside every function, 0 if none
BindingPos(nodes, varName) ==
  LET decls == {q \in 1..Len(nodes) :
                  /\ nodes[q].t \in {"VariableDeclarator", "FunctionDeclaration"}
                  /\ nodes[q].id.name = varName
                  /\ ~InFunction(nodes, q)}
  IN IF decls = {} THEN 0 ELSE MinOf(decls)

\* The loop over binding.constantViolations keeps the string assignment
\* that starts last among those before the path and after the string
\* declaration; its result does not depend on the order of the loop.
\* b is the position of the binding, base that of its string declaration
\* (0 if it is not one).
lastAssignedValue(nodes, pathPos, varName, b, base) ==
  LET cands == {q \in 1..Len(nodes) :
                  /\ q < pathPos
                  /\ IsT(nodes[q], "AssignmentExpression")
                  /\ IsT(nodes[q].left, "Identifier")
                  /\ nodes[q].left.name = varName
                  /\ IsT(nodes[q].right, "StringLiteral")
                  /\ q > base}
  IN IF cands # {} THEN nodes[MaxOf(cands)].right.value
     ELSE IF base # 0 THEN nodes[b].init.value ELSE Null

bindingValue(nodes, pathPos, varName, b) ==
  IF b = 0 THEN Null
  ELSE lastAssignedValue(nodes, pathPos, varName, b,
         IF IsT(nodes[b], "VariableDeclarator")
            /\ IsT(nodes[b].init, "StringLiteral") THEN b ELSE 0)

findStringDeclarationValue(nodes, pathPos, varName) ==
  bindingValue(nodes, pathPos, varName, BindingPos(nodes, varName))

\* if (!strVal) return null; return strVal.split('').reverse().join('')
reversedOrNull(strVal) ==
  IF strVal = Null \/ strVal = <<>> THEN Null ELSE Reverse(strVal)

\* callNode is <base>.split('').reverse().join('') with an identifier base
IsReversedStringCall(callNode) ==
  /\ IsT(callNode, "CallExpression")
  /\ Len(callNode.arguments) >= 1
  /\ IsT(callNode.arguments[1], "StringLiteral")
  /\ callNode.arguments[1].value = <<>>
  /\ isMemberProperty(callNode.callee, S_join)
  /\ IsT(callNode.callee.object, "CallExpression")
  /\ Len(callNode.callee.object.arguments) = 0
  /\ isMemberProperty(callNode.callee.object.callee, S_reverse)
  /\ IsT(callNode.callee.object.callee.object, "CallExpression")
  /\ isMemberProperty(callNode.callee.object.callee.object.callee, S_split)
  /\ Len(callNode.callee.object.callee.object.arguments) >= 1
  /\ IsT(callNode.callee.object.callee.object.arguments[1], "StringLiteral")
  /\ callNode.callee.object.callee.object.arguments[1].value = <<>>
  /\ IsT(callNode.callee.object.callee.object.callee.object, "Identifier")

resolveReversedStringCall(nodes, callNode, pathPos) ==
  IF ~IsReversedStringCall(callNode) THEN Null
  ELSE reversedOrNull(findStringDeclarationValue(
         nodes, pathPos, callNode.callee.object.callee.object.callee.object.name))

\* the value the first of the return statements at positions hits gives
firstResolved(nodes, hits) ==
  IF hits = {} THEN Null
  ELSE resolveReversedStringCall(nodes, nodes[MinOf(hits)].argument, MinOf(hits))

\* declPos is the position of the VariableDeclarator whose init is funcNode;
\* the first ReturnStatement of the body that resolves gives the value
resolveConditionalFunctionCall(nodes, funcNode, declPos) ==
  IF ~IsFunction(funcNode) \/ funcNode.body.t = "null" THEN Null
  ELSE firstResolved(nodes,
         {q \in (declPos + 3 + Len(Flat(funcNode.params)) + 1) ..
                (declPos + 1 + Size(funcNode)) :
            /\ IsT(nodes[q], "ReturnStatement")
            /\ IsT(nodes[q].argument, "CallExpression")
            /\ resolveReversedStringCall(nodes, nodes[q].argument, q) # Null})

\* first pass: VariableDeclarator and AssignmentExpression (lines 340-359)
LooksLikeKey(value) == IsHexPlus(value) /\ (Len(value) = 32 \/ Len(value) = 64)

firstPassVisit(n, sl) ==
  IF IsT(n, "VariableDeclarator")
  THEN IF IsT(n.init, "StringLiteral") /\ LooksLikeKey(n.init.value)
       THEN Put(sl, n.id.name, n.init.value) ELSE sl
  ELSE IF IsT(n.left, "Identifier") /\ IsT(n.right, "StringLiteral")
          /\ LooksLikeKey(n.right.value)
       THEN Put(sl, n.left.name, n.right.value) ELSE sl

\* second pass: ReturnStatement (lines 362-403)
\* <x>.split(..).reverse().join(..): unlike resolveReversedStringCall
\* the arguments of join and split are not looked at
IsReversePattern(arg) ==
  /\ IsT(arg, "CallExpression")
  /\ isMemberProperty(arg.callee, S_join)
  /\ IsT(arg.callee.object, "CallExpression")
  /\ Len(arg.callee.object.arguments) = 0
  /\ isMemberProperty(arg.callee.object.callee, S_reverse)
  /\ IsT(arg.callee.object.callee.object, "CallExpression")
  /\ isMemberProperty(arg.callee.object.callee.object.callee, S_split)

pushReversed(reversedValue, L) ==
  IF IsHexPlus(reversedValue)
  THEN IF Len(reversedValue) = 32 \/ Len(reversedValue) = 64
       THEN [Produce(L, reversedValue, UndefinedTag) EXCEPT
               !.found = Append(@, [prim |-> reversedValue])]
       ELSE [Produce(L, reversedValue, UndefinedTag) EXCEPT
               !.wrongLength = Append(@, [prim |-> reversedValue])]
  ELSE [Produce(L, reversedValue, UndefinedTag) EXCEPT
          !.nonHex = Append(@, [prim |-> reversedValue])]

secondPassVisit(n, sl, L) ==
  IF IsReversePattern(n.argument)
     /\ IsT(n.argument.callee.object.callee.object.callee.object, "Identifier")
     /\ Has(sl, n.argument.callee.object.callee.object.callee.object.name)
  THEN pushReversed(
         Reverse(sl[n.argument.callee.object.callee.object.callee.object.name]), L)
  ELSE L

\* third pass: VariableDeclarator at position pos (lines 406-417)
pushFound(val, L) ==
  IF val # Null
  THEN [Produce(L, val, UndefinedTag) EXCEPT !.found = Append(@, [prim |-> val])]
  ELSE L

thirdPassVisit(nodes, pos, L) ==
  IF nodes[pos].init.t \in {"FunctionExpression", "ArrowFunctionExpression"}
  THEN pushFound(resolveConditionalFunctionCall(nodes, nodes[pos].init, pos), L)
  ELSE L

-----------------------------------------------------------------------------
(* core/keyExtractionPlugin.js, Pass 1: object properties and aliases.     *)

\* the alias table keeps insertion order (it is walked with for-in): a
\* sequence of <<alias, original>> pairs with distinct aliases
AliasHas(am, a) == \E i \in 1..Len(am) : am[i][1] = a
AliasGet(am, a) == am[CHOOSE i \in 1..Len(am) : am[i][1] = a][2]
AliasPut(am, a, o) ==
  IF AliasHas(am, a)
  THEN [i \in 1..Len(am) |-> IF am[i][1] = a THEN <<a, o>> ELSE am[i]]
  ELSE Append(am, <<a, o>>)

\* the properties of one object literal, added to the entry props
RECURSIVE collectProperties(_, _)
collectProperties(properties, props) ==
  IF Len(properties) = 0 THEN props
  ELSE LET prop == Head(properties)
           keyed == prop.key.t \in {"StringLiteral", "Identifier"}
           propName == IF IsT(prop.key, "StringLiteral") THEN prop.key.value
                       ELSE prop.key.name
           next == IF IsT(prop, "ObjectProperty") /\ keyed
                   THEN Put(props, propName, prop.value)
                   ELSE IF IsT(prop, "ObjectMethod") /\ keyed
                        THEN Put(props, propName, prop)
                        ELSE props
       IN collectProperties(Tail(properties), next)

\* objectPropertiesMap[objName] = objectPropertiesMap[objName] || {}
EnsureObject(opm, objName) ==
  IF Has(opm, objName) THEN opm ELSE Put(opm, objName, EmptyMap)

\* tables is [opm, alias]; the visitor of lines 427-516 on one node
pass1Visit(n, tables) ==
  IF IsT(n, "VariableDeclarator")
  THEN LET t1 == IF IsT(n.init, "ObjectExpression")
                 THEN LET opm == EnsureObject(tables.opm, n.id.name)
                      IN [tables EXCEPT !.opm =
                            Put(opm, n.id.name,
                                collectProperties(n.init.properties, opm[n.id.name]))]
                 ELSE tables
       IN IF IsT(n.init, "Identifier")
          THEN [t1 EXCEPT !.alias = AliasPut(@, n.id.name, n.init.name)]
          ELSE t1
  ELSE LET expr == n.expression
       IN IF ~IsT(expr, "AssignmentExpression") THEN tables
          ELSE IF /\ IsT(expr.left, "MemberExpression")
                  /\ IsT(expr.left.object, "Identifier")
                  /\ expr.left.property.t \in {"StringLiteral", "Identifier"}
          THEN LET objName == expr.left.object.name
                   propName == IF IsT(expr.left.property, "StringLiteral")
                               THEN expr.left.property.value
                               ELSE expr.left.property.name
                   opm == EnsureObject(tables.opm, objName)
               IN [tables EXCEPT !.opm =
                     Put(opm, objName, Put(opm[objName], propName, expr.right))]
          ELSE IF IsT(expr.left, "Identifier") /\ IsT(expr.right, "Identifier")
          THEN [tables EXCEPT !.alias = AliasPut(@, expr.left.name, expr.right.name)]
          ELSE IF IsT(expr.left, "Identifier") /\ IsT(expr.right, "ObjectExpression")
          THEN LET opm == EnsureObject(tables.opm, expr.left.name)
               IN [tables EXCEPT !.opm =
                     Put(opm, expr.left.name,
                         collectProperties(expr.right.properties, opm[expr.left.name]))]
          ELSE tables

\* resolveAlias of lines 519-528: on a cycle the loop breaks and the name
\* reached at that point is returned
RECURSIVE resolveAliasFrom(_, _, _)
resolveAliasFrom(am, currentName, seen) ==
  IF ~AliasHas(am, currentName) THEN currentName
  ELSE IF currentName \in seen THEN currentName
  ELSE resolveAliasFrom(am, AliasGet(am, currentName), seen \cup {currentName})

resolveAlias(am, name) == resolveAliasFrom(am, name, {})

\* Object.assign(target, source)
ObjectAssign(target, source) ==
  [k \in (DOMAIN target) \cup (DOMAIN source) |->
     IF k \in DOMAIN source THEN source[k] ELSE target[k]]

Delete(m, k) == [x \in (DOMAIN m) \ {k} |-> m[x]]

\* the merge loop of lines 530-540, from the i-th alias on
RECURSIVE mergeAliases(_, _, _)
mergeAliases(am, i, opm) ==
  IF i > Len(am) THEN opm
  ELSE LET aliasName == am[i][1]
           originalName == resolveAlias(am, aliasName)
       IN IF Has(opm, aliasName)
          THEN LET o1 == EnsureObject(opm, originalName)
                   o2 == Put(o1, originalName,
                             ObjectAssign(o1[originalName], o1[aliasName]))
               IN mergeAliases(am, i + 1, Delete(o2, aliasName))
          ELSE mergeAliases(am, i + 1, opm)

-----------------------------------------------------------------------------
(* collectors/arrayCollector.js                                            *)

\* a faulty variant, for comparison: an entry is never overwritten
arrayCollectorVisit_KeepFirst(n, arrays) ==
  IF IsT(n, "VariableDeclarator")
  THEN IF IsT(n.id, "Identifier") /\ IsT(n.init, "ArrayExpression")
          /\ ~Has(arrays, n.id.name)
       THEN Put(arrays, n.id.name, n.init) ELSE arrays
  ELSE IF IsT(n.left, "Identifier") /\ IsT(n.right, "ArrayExpression")
          /\ ~Has(arrays, n.left.name)
       THEN Put(arrays, n.left.name, n.right) ELSE arrays

\* handleVariableDeclarator and handleAssignmentExpression on a node
arrayCollectorVisit(n, arrays) ==
  IF IsT(n, "VariableDeclarator")
  THEN IF IsT(n.id, "Identifier") /\ IsT(n.init, "ArrayExpression")
       THEN Put(arrays, n.id.name, n.init) ELSE arrays
  ELSE IF IsT(n.left, "Identifier") /\ IsT(n.right, "ArrayExpression")
       THEN Put(arrays, n.left.name, n.right) ELSE arrays

-----------------------------------------------------------------------------
(* collectors/segmentFunctionCollector.js                                  *)

Truthy(str) == str # Null /\ str # <<>>

RECURSIVE extractReturnFromStmts(_)
extractReturnFromStmts(stmts) ==
  IF Len(stmts) = 0 THEN Null
  ELSE IF IsT(Head(stmts), "ReturnStatement")
          /\ IsT(Head(stmts).argument, "StringLiteral")
       THEN Head(stmts).argument.value
       ELSE extractReturnFromStmts(Tail(stmts))

extractReturnFromBlock(block) ==
  IF IsT(block, "BlockStatement") THEN extractReturnFromStmts(block.body)
  ELSE IF IsT(block, "ReturnStatement") /\ IsT(block.argument, "StringLiteral")
       THEN block.argument.value
       ELSE Null

RECURSIVE extractReturnStringFromIfStatement(_)
extractReturnStringFromIfStatement(node) ==
  IF ~IsT(node, "IfStatement") THEN Null
  ELSE LET consequentReturn == extractReturnFromBlock(node.consequent)
       IN IF Truthy(consequentReturn) THEN consequentReturn
          ELSE IF node.alternate.t # "null"
               THEN LET alternateReturn == extractReturnFromBlock(node.alternate)
                    IN IF Truthy(alternateReturn) THEN alternateReturn
                       ELSE IF IsT(node.alternate, "IfStatement")
                            THEN extractReturnStringFromIfStatement(node.alternate)
                            ELSE Null
               ELSE Null

\* [ok, value]: the first statement of the body that settles the function
RECURSIVE findDirectStringReturn(_)
findDirectStringReturn(bodyStmts) ==
  IF Len(bodyStmts) = 0 THEN [ok |-> FALSE, value |-> Null]
  ELSE LET stmt == Head(bodyStmts)
       IN IF IsT(stmt, "ReturnStatement") /\ IsT(stmt.argument, "StringLiteral")
          THEN [ok |-> TRUE, value |-> stmt.argument.value]
          ELSE IF IsT(stmt, "IfStatement")
                  /\ Truthy(extractReturnStringFromIfStatement(stmt))
               THEN [ok |-> TRUE, value |-> extractReturnStringFromIfStatement(stmt)]
               ELSE findDirectStringReturn(Tail(bodyStmts))

\* The fallback traversals (findStringReturnViaTraversal, handleBlockBody)
\* pass a visitor written as a method; Babel calls it with this = the
\* traversal state, which is undefined here, so the visitor throws a
\* TypeError as soon as it meets a ReturnStatement of a string literal.
fallbackThrows(root) ==
  \E i \in 1..Len(Desc(root)) :
     /\ IsT(Desc(root)[i], "ReturnStatement")
     /\ IsT(Desc(root)[i].argument, "StringLiteral")

\* st is [map, skipped, crashed]; bodyStmts / traversed are the statements
\* searched directly and the node whose subtree the fallback traverses
settleFunction(st, funcName, bodyStmts, traversed) ==
  LET direct == findDirectStringReturn(bodyStmts)
  IN IF direct.ok THEN [st EXCEPT !.map = Put(@, funcName, direct.value)]
     ELSE IF fallbackThrows(traversed) THEN [st EXCEPT !.crashed = TRUE]
     ELSE [st EXCEPT !.skipped = @ \cup {funcName}]

\* this.segmentFunctionsMap[funcName] || this.skippedFunctions[funcName]
alreadyProcessed(st, funcName) ==
  (Has(st.map, funcName) /\ Truthy(st.map[funcName])) \/ funcName \in st.skipped

handleFunctionDeclaration_collect(n, st) ==
  IF alreadyProcessed(st, n.id.name) THEN st
  ELSE settleFunction(st, n.id.name, n.body.body, n)

handleVariableDeclarator_collect(n, st) ==
  IF ~IsT(n.id, "Identifier") \/ n.init.t = "null" THEN st
  ELSE IF alreadyProcessed(st, n.id.name) THEN st
  ELSE IF IsT(n.init, "ArrowFunctionExpression")
       THEN IF IsT(n.init.body, "StringLiteral")
            THEN [st EXCEPT !.map = Put(@, n.id.name, n.init.body.value)]
            ELSE IF IsT(n.init.body, "BlockStatement")
                 THEN settleFunction(st, n.id.name, n.init.body.body, n.init.body)
                 ELSE st
  ELSE IF IsT(n.init, "FunctionExpression")
       THEN settleFunction(st, n.id.name, n.init.body.body, n.init.body)
  ELSE st

\* the position of the nearest enclosing node, 0 for the Program
ParentPos(nodes, p) ==
  LET anc == {q \in 1..(p - 1) : q + Size(nodes[q]) > p}
  IN IF anc = {} THEN 0 ELSE MaxOf(anc)

\* the positions of consecutive sibling subtrees, the first one at first
RECURSIVE SiblingPositions(_, _)
SiblingPositions(stmts, first) ==
  IF Len(stmts) = 0 THEN {}
  ELSE {first} \cup SiblingPositions(Tail(stmts), first + Size(Head(stmts)))

\* var x; ... x = function () { return "..." }   (lines 37-90)
handleVariableDeclarationWithAssignment(nodes, pos, st) ==
  LET n == nodes[pos]
      decls == n.declarations
  IN IF ~(Len(decls) = 1 /\ IsT(decls[1].id, "Identifier") /\ decls[1].init.t = "null")
     THEN st
     ELSE LET varName == decls[1].id.name
              parent == ParentPos(nodes, pos)
              sibs == IF parent = 0 THEN SiblingPositions(prog, 1)
                      ELSE IF IsT(nodes[parent], "BlockStatement")
                           THEN SiblingPositions(nodes[parent].body, parent + 1)
                           ELSE {}
              hits == {q \in sibs :
                         /\ q > pos
                         /\ IsT(nodes[q], "ExpressionStatement")
                         /\ IsT(nodes[q].expression, "AssignmentExpression")
                         /\ IsT(nodes[q].expression.left, "Identifier")
                         /\ nodes[q].expression.left.name = varName
                         /\ nodes[q].expression.right.t \in
                              {"ArrowFunctionExpression", "FunctionExpression"}}
          IN IF hits = {} THEN st
             ELSE LET funcNode == nodes[MinOf(hits)].expression.right
                  IN IF IsT(funcNode.body, "StringLiteral")
                     THEN [st EXCEPT !.map = Put(@, varName, funcNode.body.value)]
                     ELSE IF IsT(funcNode.body, "BlockStatement")
                             /\ extractReturnFromStmts(funcNode.body.body) # Null
                          THEN [st EXCEPT !.map =
                                  Put(@, varName, extractReturnFromStmts(funcNode.body.body))]
                          ELSE st

segmentCollectorVisit(nodes, pos, st) ==
  LET n == nodes[pos]
  IN IF IsT(n, "FunctionDeclaration") THEN handleFunctionDeclaration_collect(n, st)
     ELSE IF IsT(n, "VariableDeclarator") THEN handleVariableDeclarator_collect(n, st)
     ELSE handleVariableDeclarationWithAssignment(nodes, pos, st)

-----------------------------------------------------------------------------
(* extractors/concatenatedKeyExtractor.js                                  *)

FIND_ALL_CANDIDATES == TRUE

validateConcatenatedKey(concatenatedString, assemblerFuncName, involvedSegmentFuncs) ==
  IF concatenatedString = <<>> THEN NullObj
  ELSE LET isHex == IsHexStar(concatenatedString)
           isValidLength == Len(concatenatedString) \in VALID_KEY_LENGTHS
           base == [key |-> concatenatedString, segments |-> involvedSegmentFuncs,
                    type |-> "concatenated_functions", source |-> assemblerFuncName]
       IN IF isValidLength
          THEN IF isHex THEN base @@ [isValidKey |-> TRUE]
               ELSE base @@ [isNonHex |-> TRUE]
          ELSE base @@ [isWrongLength |-> TRUE,
                        actualLength |-> Len(concatenatedString),
                        expectedLength |-> VALID_KEY_LENGTHS]

RECURSIVE findStringReturnInStmts(_)
RECURSIVE findStringReturnInBlock(_)
findStringReturnInStmts(stmts) ==
  IF Len(stmts) = 0 THEN Null
  ELSE LET stmt == Head(stmts)
       IN IF IsT(stmt, "ReturnStatement") /\ IsT(stmt.argument, "StringLiteral")
          THEN stmt.argument.value
          ELSE IF IsT(stmt, "IfStatement")
                  /\ Truthy(findStringReturnInBlock(stmt.consequent))
               THEN findStringReturnInBlock(stmt.consequent)
               ELSE IF IsT(stmt, "IfStatement") /\ stmt.alternate.t # "null"
                       /\ Truthy(findStringReturnInBlock(stmt.alternate))
                    THEN findStringReturnInBlock(stmt.alternate)
                    ELSE findStringReturnInStmts(Tail(stmts))

\* _findStringReturnInBlock
findStringReturnInBlock(blockNode) ==
  IF ~IsT(blockNode, "BlockStatement") THEN Null
  ELSE findStringReturnInStmts(blockNode.body)

\* on a cycle the name asked for is returned
RECURSIVE resolveObjectNameFrom(_, _, _, _)
resolveObjectNameFrom(am, name, currentName, seen) ==
  IF ~AliasHas(am, currentName) THEN currentName
  ELSE IF currentName \in seen THEN name
  ELSE resolveObjectNameFrom(am, name, AliasGet(am, currentName),
                             seen \cup {currentName})

resolveObjectName(am, name) == resolveObjectNameFrom(am, name, name, {})

\* objectPropertiesMap?.[objName]?.[propName]
HasProperty(opm, objName, propName) ==
  Has(opm, objName) /\ Has(opm[objName], propName)

Unresolved == [value |-> Null, segments |-> <<>>]

\* tb is [seg, opm, alias]: the three tables the extractor reads

\* the name of a property given as a string literal or an identifier
PropertyName(property) ==
  IF IsT(property, "StringLiteral") THEN property.value ELSE property.name

\* S["a"] or S.a, not as a callee
IsPropertyRead(node, parentNode) ==
  /\ IsT(node, "MemberExpression")
  /\ ~IsT(parentNode, "CallExpression")
  /\ IsT(node.object, "Identifier")
  /\ node.property.t \in {"StringLiteral", "Identifier"}

\* S["b"]() or S.b()
IsPropertyCall(node) ==
  /\ IsT(node, "CallExpression")
  /\ IsT(node.callee, "MemberExpression")
  /\ IsT(node.callee.object, "Identifier")
  /\ node.callee.property.t \in {"StringLiteral", "Identifier"}

\* funcName() for a name of the Segment Function Table
IsSegmentCall(node, seg) ==
  /\ IsT(node, "CallExpression")
  /\ IsT(node.callee, "Identifier")
  /\ Has(seg, node.callee.name)
  /\ Truthy(seg[node.callee.name])

\* the string a property read resolves to
propertyReadValue(opm, objName, propName) ==
  IF HasProperty(opm, objName, propName)
     /\ IsT(opm[objName][propName], "StringLiteral")
  THEN [value |-> opm[objName][propName].value,
        segments |-> <<objName \o <<46>> \o propName>>]
  ELSE Unresolved

\* the string a call of the property value propValue resolves to
propertyCallValue(propValue, propName) ==
  IF IsT(propValue, "StringLiteral")
  THEN [value |-> propValue.value, segments |-> <<propName>>]
  ELSE IF propValue.t \in {"FunctionExpression", "ArrowFunctionExpression"}
          /\ IsT(propValue.body, "StringLiteral")
  THEN [value |-> propValue.body.value, segments |-> <<propName>>]
  ELSE IF propValue.t \in {"FunctionExpression", "ArrowFunctionExpression"}
          /\ Truthy(findStringReturnInBlock(propValue.body))
  THEN [value |-> findStringReturnInBlock(propValue.body), segments |-> <<propName>>]
  ELSE Unresolved

propertyCall(opm, objName, propName) ==
  IF HasProperty(opm, objName, propName)
  THEN propertyCallValue(opm[objName][propName], propName)
  ELSE Unresolved

segmentCallValue(node, seg) ==
  IF IsSegmentCall(node, seg)
  THEN [value |-> seg[node.callee.name], segments |-> <<node.callee.name>>]
  ELSE Unresolved

getStringFromNode(node, parentNode, tb) ==
  IF IsPropertyRead(node, parentNode)
  THEN propertyReadValue(tb.opm, resolveObjectName(tb.alias, node.object.name),
                         PropertyName(node.property))
  ELSE IF IsPropertyCall(node)
  THEN propertyCall(tb.opm, resolveObjectName(tb.alias, node.callee.object.name),
                    PropertyName(node.callee.property))
  ELSE segmentCallValue(node, tb.seg)

IsConcatenation(node) ==
  IsT(node, "BinaryExpression") /\ node.operator \in {"+", "|"}

\* the results of getStringFromNode on the leaves, left to right
RECURSIVE flattenLeaves(_, _, _)
flattenLeaves(currentNode, parentNode, tb) ==
  IF IsConcatenation(currentNode)
  THEN flattenLeaves(currentNode.left, currentNode, tb)
       \o flattenLeaves(currentNode.right, currentNode, tb)
  ELSE <<getStringFromNode(currentNode, parentNode, tb)>>

\* [parts, lastSegments] of the leaves
PartsOf(leaves) ==
  [parts |-> [i \in 1..Len(leaves) |-> leaves[i].value],
   lastSegments |-> JoinAll([i \in 1..Len(leaves) |-> leaves[i].segments])]

\* a faulty variant, for comparison: a leaf that does not resolve is left out
flattenConcatenation_SkipNull(node, tb) ==
  PartsOf(SelectSeq(flattenLeaves(node, NoNode, tb), LAMBDA r : r.value # Null))

flattenConcatenation(node, tb) == PartsOf(flattenLeaves(node, NoNode, tb))

\* stringParts.some(p => p === undefined || p === null) ? null : join('')
joinedParts(flat) ==
  IF \E i \in 1..Len(flat.parts) : flat.parts[i] = Null
  THEN Unresolved
  ELSE [value |-> JoinAll(flat.parts), segments |-> flat.lastSegments]

\* the string deriveAndValidate derives before it validates it, with its
\* segments; Unresolved when it derives none
derivedString(returnArgumentNode, tb) ==
  IF IsConcatenation(returnArgumentNode)
  THEN joinedParts(flattenConcatenation(returnArgumentNode, tb))
  ELSE IF IsT(returnArgumentNode, "CallExpression")
  THEN getStringFromNode(returnArgumentNode, NoNode, tb)
  ELSE Unresolved

\* the validation result together with the string it was derived from
validated(derived, assemblerFuncName) ==
  [result |-> IF derived.value = Null THEN NullObj
              ELSE validateConcatenatedKey(derived.value, assemblerFuncName,
                                           derived.segments),
   derived |-> derived.value]

deriveAndValidate(returnArgumentNode, assemblerFuncName, tb) ==
  validated(derivedString(returnArgumentNode, tb), assemblerFuncName)

-----------------------------------------------------------------------------
(* extractors/functionKeyExtractor.js                                      *)

SameKeyAndType(fk, result) ==
  GetProp(fk, "key") = result.key /\ GetType(fk) = result.type

handleExtractionResult(result, L) ==
  IF result = NullObj THEN L
  ELSE IF Flag(result, "isValidKey")
  THEN IF \E i \in 1..Len(L.found) : SameKeyAndType(L.found[i], result)
       THEN L
       ELSE [L EXCEPT !.found = Append(@, result)]
  ELSE IF Flag(result, "isNonHex")
  THEN [L EXCEPT !.nonHex = Append(@,
          [result |-> result.key, type |-> result.type,
           source |-> result.source, segments |-> result.segments])]
  ELSE IF Flag(result, "isWrongLength")
  THEN [L EXCEPT !.wrongLength = Append(@,
          [result |-> result.key, type |-> result.type,
           source |-> result.source, segments |-> result.segments,
           length |-> result.actualLength,
           expectedLength |-> result.expectedLength])]
  ELSE L

\* what handleExtractionResult returns: true for a valid key when not
\* every candidate is asked for
handleExtractionResultReturns(result, findAllCandidates) ==
  result # NullObj /\ Flag(result, "isValidKey") /\ ~findAllCandidates

\* the result of deriveAndValidate handed to handleExtractionResult
settle(outcome, L) ==
  handleExtractionResult(outcome.result,
    IF outcome.derived = Null THEN L
    ELSE Produce(L, outcome.derived, "concatenated_functions"))

processReturnStatement(returnNode, funcName, tb, L) ==
  settle(deriveAndValidate(returnNode.argument, funcName, tb), L)

processImplicitReturn(bodyNode, funcName, tb, L) ==
  settle(deriveAndValidate(bodyNode, funcName, tb), L)

\* path.get('body').traverse({ReturnStatement}): every return statement
\* below the body, those of nested functions included, in pre-order
RECURSIVE processReturns(_, _, _, _)
processReturns(returns, funcName, tb, L) ==
  IF Len(returns) = 0 THEN L
  ELSE processReturns(Tail(returns), funcName, tb,
                      processReturnStatement(Head(returns), funcName, tb, L))

ReturnsBelow(body) == OfTypes(Desc(body), {"ReturnStatement"})

handleFunctionDeclaration(n, tb, L) ==
  IF IsT(n.body, "BlockStatement")
  THEN processReturns(ReturnsBelow(n.body), n.id.name, tb, L)
  ELSE L

\* the function value funcNode bound to funcName by a declarator or an
\* assignment
processFunctionValue(funcNode, funcName, tb, L) ==
  IF IsT(funcNode.body, "BlockStatement")
  THEN processReturns(ReturnsBelow(funcNode.body), funcName, tb, L)
  ELSE IF funcNode.body.t # "null"
  THEN processImplicitReturn(funcNode.body, funcName, tb, L)
  ELSE L

handleVariableDeclarator(n, tb, L) ==
  IF n.init.t \in {"ArrowFunctionExpression", "FunctionExpression"}
  THEN processFunctionValue(n.init, n.id.name, tb, L)
  ELSE L

handleAssignmentExpression(n, tb, L) ==
  IF IsT(n.left, "Identifier")
     /\ n.right.t \in {"ArrowFunctionExpression", "FunctionExpression"}
  THEN processFunctionValue(n.right, n.left.name, tb, L)
  ELSE L

functionVisit(n, tb, L) ==
  CASE n.t = "FunctionDeclaration" -> handleFunctionDeclaration(n, tb, L)
    [] n.t = "VariableDeclarator" -> handleVariableDeclarator(n, tb, L)
    [] n.t = "AssignmentExpression" -> handleAssignmentExpression(n, tb, L)
    [] OTHER -> L

RECURSIVE functionVisitAll(_, _, _)
functionVisitAll(ns, tb, L) ==
  IF Len(ns) = 0 THEN L
  ELSE functionVisitAll(Tail(ns), tb, functionVisit(Head(ns), tb, L))

\* BlockStatement.enter: blockPath.traverse with the same three handlers
blockStatementEnter(n, tb, L) ==
  functionVisitAll(OfTypes(Desc(n), {"FunctionDeclaration", "VariableDeclarator",
                                     "AssignmentExpression"}), tb, L)

-----------------------------------------------------------------------------
(* extractors/arrayJoinExtractor.js: the built-ins it calls.               *)

\* String.fromCharCode(v): the code unit v modulo 2^16, 0 for NaN
FromCharCode(v) == v % 65536

NaN == [nan |-> TRUE, value |-> 0]
Number(v) == [nan |-> FALSE, value |-> v]

IsWhiteSpace(c) == c \in {9, 10, 11, 12, 13, 32}

DigitValue(c) ==
  IF c \in 48..57 THEN c - 48
  ELSE IF c \in 97..122 THEN c - 87
  ELSE IF c \in 65..90 THEN c - 55
  ELSE 99

RECURSIVE TrimStart(_)
TrimStart(str) ==
  IF Len(str) > 0 /\ IsWhiteSpace(Head(str)) THEN TrimStart(Tail(str)) ELSE str

\* the value of the longest prefix of digits of the radix; NaN if empty
RECURSIVE ParseDigits(_, _, _, _)
ParseDigits(str, radix, acc, any) ==
  IF Len(str) > 0 /\ DigitValue(Head(str)) < radix
  THEN ParseDigits(Tail(str), radix, acc * radix + DigitValue(Head(str)), TRUE)
  ELSE IF any THEN Number(acc) ELSE NaN

\* the string without its sign, and whether the sign was a minus
Unsigned(trimmed) ==
  IF Len(trimmed) > 0 /\ Head(trimmed) \in {43, 45}
  THEN [negative |-> Head(trimmed) = 45, digits |-> Tail(trimmed)]
  ELSE [negative |-> FALSE, digits |-> trimmed]

\* the digits without the 0x or 0X that radix 16 allows in front of them
Unprefixed(digits, radix) ==
  IF radix = 16 /\ Len(digits) >= 2 /\ digits[1] = 48 /\ digits[2] \in {120, 88}
  THEN Tail(Tail(digits)) ELSE digits

Signed(parsed, negative) ==
  IF parsed.nan THEN NaN
  ELSE IF negative THEN Number(0 - parsed.value) ELSE parsed

ParseUnsigned(u, radix) ==
  Signed(ParseDigits(Unprefixed(u.digits, radix), radix, 0, FALSE), u.negative)

\* parseInt(str, radix) for radix 10 and 16
ParseInt(str, radix) == ParseUnsigned(Unsigned(TrimStart(str)), radix)

S_StringFromCharCode == S_String \o <<46>> \o S_fromCharCode
S_objFromCharCode == <<111, 98, 106, 46>> \o S_fromCharCode
S_arrow == <<45, 62>>

-----------------------------------------------------------------------------
(* extractors/arrayJoinExtractor.js                                        *)

\* t.isIdentifier(prop, {name}) || t.isStringLiteral(prop, {value: name})
IsNamed(prop, name) ==
  \/ IsT(prop, "Identifier") /\ prop.name = name
  \/ IsT(prop, "StringLiteral") /\ prop.value = name

AllOfType(elements, type) == \A i \in 1..Len(elements) : IsT(elements[i], type)

Values(elements) == [i \in 1..Len(elements) |-> elements[i].value]

CharCodes(values) == [i \in 1..Len(values) |-> FromCharCode(values[i])]

\* a faulty variant, for comparison: every string that is not a 64-digit key is reported nonHex
categorizeFromCharCodeResult_NoLength(key, source, type, L) ==
  IF Len(key) = 64 /\ IsHexPlus(key)
  THEN IF \E i \in 1..Len(L.found) :
            GetProp(L.found[i], "key") = key /\ GetType(L.found[i]) = type
       THEN L
       ELSE [L EXCEPT !.found = Append(@, [key |-> key, type |-> type,
                                           source |-> source])]
  ELSE [L EXCEPT !.nonHex = Append(@, [result |-> key, type |-> type,
                                       source |-> source])]

categorizeFromCharCodeResult(key, source, type, L) ==
  IF Len(key) = 64 /\ IsHexPlus(key)
  THEN IF \E i \in 1..Len(L.found) :
            GetProp(L.found[i], "key") = key /\ GetType(L.found[i]) = type
       THEN L
       ELSE [L EXCEPT !.found = Append(@, [key |-> key, type |-> type,
                                           source |-> source])]
  ELSE IF Len(key) = 64
  THEN [L EXCEPT !.nonHex = Append(@, [result |-> key, type |-> type,
                                       source |-> source])]
  ELSE [L EXCEPT !.wrongLength = Append(@, [result |-> key, type |-> type,
                                            source |-> source,
                                            length |-> Len(key)])]

\* the characters of the codes, classified and recorded as derived
fromCharCodes(key, source, type, L) ==
  categorizeFromCharCodeResult(key, source, type, Produce(L, key, type))

handleFromCharCodeSpread(spreadArg, arrays, L) ==
  IF IsT(spreadArg.argument, "Identifier") /\ Has(arrays, spreadArg.argument.name)
     /\ IsT(arrays[spreadArg.argument.name], "ArrayExpression")
     /\ AllOfType(arrays[spreadArg.argument.name].elements, "NumericLiteral")
  THEN fromCharCodes(CharCodes(Values(arrays[spreadArg.argument.name].elements)),
                     spreadArg.argument.name, "fromCharCode_array", L)
  ELSE L

handleFromCharCodeDirect(args, calleeName, L) ==
  fromCharCodes(CharCodes(Values(args)), calleeName, "fromCharCode_args", L)

IsFromCharCodeProperty(prop) ==
  \/ IsNamed(prop, S_fromCharCode)
  \/ IsT(prop, "StringLiteral") /\ prop.value = <<>>

IsFromCharCode(callee) ==
  \/ IsT(callee, "MemberExpression") /\ IsFromCharCodeProperty(callee.property)
  \/ IsT(callee, "Identifier") /\ callee.name = S_fromCharCode

CalleeName(callee) ==
  IF IsT(callee, "MemberExpression")
  THEN IF IsT(callee.object, "Identifier") /\ callee.object.name = S_String
       THEN S_StringFromCharCode ELSE S_objFromCharCode
  ELSE S_fromCharCode

handleFromCharCode(callee, args, arrays, L) ==
  IF ~IsFromCharCode(callee) THEN L
  ELSE IF Len(args) = 1 /\ IsT(args[1], "SpreadElement")
  THEN handleFromCharCodeSpread(args[1], arrays, L)
  ELSE IF Len(args) > 0 /\ AllOfType(args, "NumericLiteral")
  THEN handleFromCharCodeDirect(args, CalleeName(callee), L)
  ELSE L

categorizeValidationResult(validationResult, L) ==
  IF Flag(validationResult, "isValidKey")
  THEN IF \E i \in 1..Len(L.found) : SameKeyAndType(L.found[i], validationResult)
       THEN L
       ELSE [L EXCEPT !.found = Append(@, validationResult)]
  ELSE IF Flag(validationResult, "isNonHex")
  THEN [L EXCEPT !.nonHex = Append(@,
          [result |-> validationResult.key, type |-> validationResult.type,
           source |-> validationResult.source])]
  ELSE IF Flag(validationResult, "isWrongLength")
  THEN [L EXCEPT !.wrongLength = Append(@,
          [result |-> validationResult.key, type |-> validationResult.type,
           source |-> validationResult.source,
           length |-> validationResult.actualLength,
           expectedLength |-> validationResult.expectedLength])]
  ELSE L

\* validateKey on a derived key, its outcome classified and the key
\* recorded as derived
validateAndCategorize(derivedKey, source, type, L) ==
  categorizeValidationResult(validateKey(derivedKey, source, type),
                             Produce(L, derivedKey, type))

\* returnPath.getFunctionParent() === mapCallbackPath, for the node at
\* position q of Flat(<<callback>>): no function strictly between them
FunctionParentIsRoot(nodes, q) ==
  \A r \in 2..(q - 1) : ~(IsFunction(nodes[r]) /\ r + Size(nodes[r]) > q)

OwnReturnsIn(nodes) ==
  SelectSeq([q \in 1..Len(nodes) |->
               IF q >= 2 /\ IsT(nodes[q], "ReturnStatement")
                  /\ FunctionParentIsRoot(nodes, q)
               THEN nodes[q] ELSE NoNode],
            LAMBDA x : x.t # "null")

\* the return statements of the callback itself, in pre-order
OwnReturns(callback) == OwnReturnsIn(Flat(<<callback>>))

ObjectNameOfFirst(hits) == IF Len(hits) = 0 THEN Null ELSE hits[1].object.name

\* subtree.traverse(visitor): the first member expression strictly below
\* the subtree whose object is an identifier and whose property is the
\* parameter; Null if there is none
FirstIndexedBy(subtree, paramName) ==
  ObjectNameOfFirst(
    SelectSeq(Desc(subtree),
      LAMBDA m : /\ IsT(m, "MemberExpression")
                 /\ IsT(m.object, "Identifier")
                 /\ IsT(m.property, "Identifier")
                 /\ m.property.name = paramName))

FirstIndexedIn(returns, paramName) ==
  IF Len(returns) = 0 THEN Null
  ELSE FirstIndexedBy(returns[1].argument, paramName)

extractSourceArrayName(callback, paramName) ==
  IF IsT(callback.body, "BlockStatement")
  THEN FirstIndexedIn(
         SelectSeq(OwnReturns(callback),
           LAMBDA r : /\ r.argument.t # "null"
                      /\ FirstIndexedBy(r.argument, paramName) # Null),
         paramName)
  ELSE FirstIndexedBy(callback.body, paramName)

Index(el) ==
  IF IsT(el, "NumericLiteral") THEN Number(el.value) ELSE ParseInt(el.value, 10)

\* the key gathered from the source strings at the indices that are
\* numbers, if all of those are in bounds
gatherAndValidate(validIndices, sourceStrings, source, L) ==
  IF \A i \in 1..Len(validIndices) :
       validIndices[i].value >= 0 /\ validIndices[i].value < Len(sourceStrings)
  THEN validateAndCategorize(
         JoinAll([i \in 1..Len(validIndices) |->
                    sourceStrings[validIndices[i].value + 1]]),
         source, "indexed_array_map_join", L)
  ELSE L

processArrayMapping(indexArrayName, sourceArrayName, arrays, L) ==
  IF /\ \A i \in 1..Len(arrays[indexArrayName].elements) :
          arrays[indexArrayName].elements[i].t \in {"NumericLiteral", "StringLiteral"}
     /\ AllOfType(arrays[sourceArrayName].elements, "StringLiteral")
  THEN gatherAndValidate(
         SelectSeq([i \in 1..Len(arrays[indexArrayName].elements) |->
                      Index(arrays[indexArrayName].elements[i])],
                   LAMBDA x : ~x.nan),
         Values(arrays[sourceArrayName].elements),
         indexArrayName \o S_arrow \o sourceArrayName, L)
  ELSE L

HasOneIdentifierParam(mapCallbackNode) ==
  /\ mapCallbackNode.t \in {"ArrowFunctionExpression", "FunctionExpression"}
  /\ Len(mapCallbackNode.params) = 1
  /\ IsT(mapCallbackNode.params[1], "Identifier")

mapIndexed(indexArrayName, sourceArrayName, arrays, L) ==
  IF Truthy(sourceArrayName) /\ Has(arrays, indexArrayName)
     /\ Has(arrays, sourceArrayName)
  THEN processArrayMapping(indexArrayName, sourceArrayName, arrays, L)
  ELSE L

processIndexedMapping(joinObject, arrays, L) ==
  mapIndexed(joinObject.callee.object.name,
             IF HasOneIdentifierParam(joinObject.arguments[1])
             THEN extractSourceArrayName(joinObject.arguments[1],
                                         joinObject.arguments[1].params[1].name)
             ELSE Null,
             arrays, L)

IsMapCall(joinObject) ==
  /\ IsT(joinObject, "CallExpression")
  /\ IsT(joinObject.callee, "MemberExpression")
  /\ IsNamed(joinObject.callee.property, S_map)
  /\ IsT(joinObject.callee.object, "Identifier")

handleIndexedArrayMapping(callee, args, arrays, L) ==
  IF /\ IsT(callee, "MemberExpression")
     /\ IsNamed(callee.property, S_join)
     /\ Len(args) = 1
     /\ IsT(args[1], "StringLiteral")
     /\ args[1].value = <<>>
     /\ IsMapCall(callee.object)
     /\ Len(callee.object.arguments) = 1
  THEN processIndexedMapping(callee.object, arrays, L)
  ELSE L

LastArgument(own) == IF Len(own) = 0 THEN NoNode ELSE own[Len(own)].argument

\* the node the map callback returns: its body, or the argument of the
\* last of its own return statements (NoNode if it has none)
returnedValueNode(mapCallbackNode) ==
  IF IsT(mapCallbackNode.body, "BlockStatement")
  THEN LastArgument(OwnReturns(mapCallbackNode))
  ELSE mapCallbackNode.body

\* String.fromCharCode(parseInt(<mapParam>, 16))
IsCharCodeOfParseInt(fromCharCodeCall, mapParam) ==
  /\ IsT(fromCharCodeCall, "CallExpression")
  /\ IsT(fromCharCodeCall.callee, "MemberExpression")
  /\ IsNamed(fromCharCodeCall.callee.property, S_fromCharCode)
  /\ Len(fromCharCodeCall.arguments) = 1
  /\ IsT(fromCharCodeCall.arguments[1], "CallExpression")
  /\ Len(fromCharCodeCall.arguments[1].arguments) = 2
  /\ IsT(mapParam, "Identifier")
  /\ IsT(fromCharCodeCall.arguments[1].arguments[1], "Identifier")
  /\ fromCharCodeCall.arguments[1].arguments[1].name = mapParam.name
  /\ IsT(fromCharCodeCall.arguments[1].arguments[2], "NumericLiteral")
  /\ fromCharCodeCall.arguments[1].arguments[2].value = 16

\* x => String.fromCharCode(parseInt(x, 16))
IsCharCodeParseIntCallback(mapCallbackNode) ==
  /\ mapCallbackNode.t \in {"ArrowFunctionExpression", "FunctionExpression"}
  /\ Len(mapCallbackNode.params) = 1
  /\ IsCharCodeOfParseInt(returnedValueNode(mapCallbackNode),
                          mapCallbackNode.params[1])

CharCodeOf(parsed) == IF parsed.nan THEN 0 ELSE FromCharCode(parsed.value)

HexCharCode(str) == CharCodeOf(ParseInt(str, 16))

mapJoin(joinObject, elements, sourceName, L) ==
  IF ~AllOfType(elements, "StringLiteral") THEN L
  ELSE IF Len(joinObject.arguments) >= 1
          /\ IsCharCodeParseIntCallback(joinObject.arguments[1])
  THEN validateAndCategorize(
         [i \in 1..Len(elements) |-> HexCharCode(elements[i].value)],
         sourceName, "array_map_charcode_parseint", L)
  ELSE validateAndCategorize(JoinAll(Values(elements)), sourceName,
                             "array_map_join", L)

handleArrayMapJoin(joinObject, arrays, L) ==
  IF ~Has(arrays, joinObject.callee.object.name) THEN L
  ELSE mapJoin(joinObject, arrays[joinObject.callee.object.name].elements,
               joinObject.callee.object.name, L)

handleDirectArrayJoin(joinObject, arrays, L) ==
  IF Has(arrays, joinObject.name)
     /\ AllOfType(arrays[joinObject.name].elements, "StringLiteral")
  THEN validateAndCategorize(JoinAll(Values(arrays[joinObject.name].elements)),
                             joinObject.name, "direct_array_join", L)
  ELSE L

handleDirectArrayJoins(callee, args, arrays, L) ==
  IF /\ IsT(callee, "MemberExpression")
     /\ IsNamed(callee.property, S_join)
     /\ \/ Len(args) = 0
        \/ Len(args) = 1 /\ IsT(args[1], "StringLiteral") /\ args[1].value = <<>>
  THEN IF IsMapCall(callee.object)
       THEN handleArrayMapJoin(callee.object, arrays, L)
       ELSE IF IsT(callee.object, "Identifier")
       THEN handleDirectArrayJoin(callee.object, arrays, L)
       ELSE L
  ELSE L

\* createCallExpressionHandler: the three handlers, in this order
callExpressionHandler(n, arrays, L) ==
  handleDirectArrayJoins(n.callee, n.arguments, arrays,
    handleIndexedArrayMapping(n.callee, n.arguments, arrays,
      handleFromCharCode(n.callee, n.arguments, arrays, L)))

-----------------------------------------------------------------------------
(* utils/extractionUtils.js                                                *)

\* what console.log writes for item.key: the key, or the text "undefined"
\* for an item without the property
ToText(v) == IF v = Undefined THEN UndefinedText ELSE v

\* the lines printResults writes with console.log
printResults(found, findAllCandidates) ==
  IF Len(found) > 0 /\ (findAllCandidates \/ Len(found) = 1)
  THEN [i \in 1..Len(found) |-> ToText(GetProp(found[i], "key"))]
  ELSE <<>>

-----------------------------------------------------------------------------
(* core/keyExtractionPlugin.js: the Program visitor, one step per visit of *)
(* a node by one of its traversals.                                        *)

Nodes == Flat(prog)

\* the traversals and the steps between them, in the order of the visitor
Phases == <<"scan1", "scan2", "scan3", "gate", "collect1", "merge", "arrays",
            "segments", "extract", "print">>

\* the node types for which a traversal has a handler
HandledTypes(phase) ==
  CASE phase = "scan1" -> {"VariableDeclarator", "AssignmentExpression"}
    [] phase = "scan2" -> {"ReturnStatement"}
    [] phase = "scan3" -> {"VariableDeclarator"}
    [] phase = "collect1" -> {"VariableDeclarator", "ExpressionStatement"}
    [] phase = "arrays" -> {"VariableDeclarator", "AssignmentExpression"}
    [] phase = "segments" -> {"FunctionDeclaration", "VariableDeclarator",
                              "VariableDeclaration"}
    [] phase = "extract" -> {"CallExpression", "FunctionDeclaration",
                             "VariableDeclarator", "AssignmentExpression",
                             "BlockStatement"}
    [] OTHER -> {}

\* the first node at or after position from that the traversal handles
NextPos(nodes, from, types) ==
  LET later == {q \in from..Len(nodes) : nodes[q].t \in types}
  IN IF later = {} THEN 0 ELSE MinOf(later)

\* where the visitor stands when it reaches the k-th phase: a traversal
\* that handles no node of the program is passed over
RECURSIVE Enter(_, _)
Enter(k, nodes) ==
  IF k > Len(Phases) THEN [pc |-> "done", idx |-> 0]
  ELSE IF HandledTypes(Phases[k]) = {} THEN [pc |-> Phases[k], idx |-> 0]
  ELSE IF NextPos(nodes, 1, HandledTypes(Phases[k])) # 0
  THEN [pc |-> Phases[k], idx |-> NextPos(nodes, 1, HandledTypes(Phases[k]))]
  ELSE Enter(k + 1, nodes)

PhaseIndex(phase) == CHOOSE k \in 1..Len(Phases) : Phases[k] = phase

\* where the visitor stands after the visit of the node at position p
After(phase, nodes, p) ==
  IF NextPos(nodes, p + 1, HandledTypes(phase)) # 0
  THEN [pc |-> phase, idx |-> NextPos(nodes, p + 1, HandledTypes(phase))]
  ELSE Enter(PhaseIndex(phase) + 1, nodes)

Goto(where) == pc' = where.pc /\ idx' = where.idx

CurrentLists ==
  Lists(foundKeys, nonHexCandidates, wrongLengthCandidates, produced)

SetLists(L) ==
  /\ foundKeys' = L.found
  /\ nonHexCandidates' = L.nonHex
  /\ wrongLengthCandidates' = L.wrongLength
  /\ produced' = L.produced

Scan1Visit ==
  /\ pc = "scan1"
  /\ stringLiterals' = firstPassVisit(Nodes[idx], stringLiterals)
  /\ Goto(After("scan1", Nodes, idx))
  /\ UNCHANGED <<valVars, pipeVars, simpVars, prog, listVars, tableVars, produced, stdout>>

Scan2Visit ==
  /\ pc = "scan2"
  /\ SetLists(secondPassVisit(Nodes[idx], stringLiterals, CurrentLists))
  /\ Goto(After("scan2", Nodes, idx))
  /\ UNCHANGED <<valVars, pipeVars, simpVars, prog, stringLiterals, tableVars, stdout>>

Scan3Visit ==
  /\ pc = "scan3"
  /\ SetLists(thirdPassVisit(Nodes, idx, CurrentLists))
  /\ Goto(After("scan3", Nodes, idx))
  /\ UNCHANGED <<valVars, pipeVars, simpVars, prog, stringLiterals, tableVars, stdout>>

\* if (foundKeys.length === 0) { standard extraction } else { skip it }
Gate ==
  /\ pc = "gate"
  /\ IF Len(foundKeys) = 0
     THEN Goto(Enter(PhaseIndex("gate") + 1, Nodes))
     ELSE Goto([pc |-> "print", idx |-> 0])
  /\ UNCHANGED <<valVars, pipeVars, simpVars, prog, stringLiterals, listVars, tableVars, produced,
                 stdout>>

Pass1Visit ==
  /\ pc = "collect1"
  /\ LET tables == pass1Visit(Nodes[idx], [opm |-> objectPropertiesMap,
                                           alias |-> aliasMap])
     IN objectPropertiesMap' = tables.opm /\ aliasMap' = tables.alias
  /\ Goto(After("collect1", Nodes, idx))
  /\ UNCHANGED <<valVars, pipeVars, simpVars, prog, stringLiterals, listVars, potentialKeyArrays,
                 segmentFunctionsMap, skippedFunctions, produced, stdout>>

MergeAliases ==
  /\ pc = "merge"
  /\ objectPropertiesMap' = mergeAliases(aliasMap, 1, objectPropertiesMap)
  /\ Goto(Enter(PhaseIndex("merge") + 1, Nodes))
  /\ UNCHANGED <<valVars, pipeVars, simpVars, prog, stringLiterals, listVars, aliasMap,
                 potentialKeyArrays, segmentFunctionsMap, skippedFunctions,
                 produced, stdout>>

ArrayVisit ==
  /\ pc = "arrays"
  /\ potentialKeyArrays' = arrayCollectorVisit(Nodes[idx], potentialKeyArrays)
  /\ Goto(After("arrays", Nodes, idx))
  /\ UNCHANGED <<valVars, pipeVars, simpVars, prog, stringLiterals, listVars, objectPropertiesMap,
                 aliasMap, segmentFunctionsMap, skippedFunctions, produced, stdout>>

\* a TypeError thrown by the collector leaves the visitor
SegmentVisit ==
  /\ pc = "segments"
  /\ LET st == segmentCollectorVisit(Nodes, idx,
                 [map |-> segmentFunctionsMap, skipped |-> skippedFunctions,
                  crashed |-> FALSE])
     IN /\ segmentFunctionsMap' = st.map
        /\ skippedFunctions' = st.skipped
        /\ IF st.crashed THEN Goto([pc |-> "crashed", idx |-> 0])
           ELSE Goto(After("segments", Nodes, idx))
  /\ UNCHANGED <<valVars, pipeVars, simpVars, prog, stringLiterals, listVars, objectPropertiesMap,
                 aliasMap, potentialKeyArrays, produced, stdout>>

Tables == [seg |-> segmentFunctionsMap, opm |-> objectPropertiesMap,
           alias |-> aliasMap]

\* the visitor object of Pass 3: CallExpression from the array extractor,
\* the other four keys from FunctionKeyExtractor.createVisitors
extractVisit(n, tb, arrays, L) ==
  CASE n.t = "CallExpression" -> callExpressionHandler(n, arrays, L)
    [] n.t = "BlockStatement" -> blockStatementEnter(n, tb, L)
    [] OTHER -> functionVisit(n, tb, L)

ExtractVisit ==
  /\ pc = "extract"
  /\ SetLists(extractVisit(Nodes[idx], Tables, potentialKeyArrays, CurrentLists))
  /\ Goto(After("extract", Nodes, idx))
  /\ UNCHANGED <<valVars, pipeVars, simpVars, prog, stringLiterals, tableVars, stdout>>

PrintResults ==
  /\ pc = "print"
  /\ stdout' = printResults(foundKeys, FIND_ALL_CANDIDATES)
  /\ Goto([pc |-> "done", idx |-> 0])
  /\ UNCHANGED <<valVars, pipeVars, simpVars, prog, stringLiterals, listVars, tableVars, produced>>

\* the tables and lists as the Program visitor creates them
Fresh ==
  /\ stringLiterals = EmptyMap
  /\ foundKeys = <<>> /\ nonHexCandidates = <<>> /\ wrongLengthCandidates = <<>>
  /\ objectPropertiesMap = EmptyMap /\ aliasMap = <<>>
  /\ potentialKeyArrays = EmptyMap /\ segmentFunctionsMap = EmptyMap
  /\ skippedFunctions = {}
  /\ produced = <<>> /\ stdout = <<>>

\* no code: a variable not assigned yet, a file not written, result.code
\* of a transform run with code: false
NoCode == [none |-> TRUE]

\* the driver script not started
PipeIdle ==
  /\ silentMode = FALSE /\ DEBUG = FALSE
  /\ DEBUG_CONFIG = [Enabled |-> FALSE, PERFORMANCE |-> TRUE]
  /\ stage = "idle"
  /\ inputCode = NoCode /\ intermediateCode = NoCode
  /\ events = <<>> /\ console = <<>>
  /\ exitStatus = -1 /\ outputFile = NoCode

\* no simplifier run, no alias run
SimpIdle == tree = <<>> /\ applied = <<>> /\ calls = <<>>

-----------------------------------------------------------------------------
(* The programs the plugin is run on.                                      *)

MaxDepth == 2     \* nesting depth of the assembler function
MaxRepeat == 2    \* number of times the same join call is written

S_hello == <<104, 101, 108, 108, 111>>
S_aaaa == <<97, 97, 97, 97>>
S_bbbb == <<98, 98, 98, 98>>
S_cccc == <<99, 99, 99, 99>>
Hex32 == Pattern(<<49, 97>>, 32)
NonHex32 == Pattern(<<103>>, 32)

\* identifiers: a b c z asm w j f g h E A I S T k
N_a == <<97>>
N_b == <<98>>
N_c == <<99>>
N_z == <<122>>
N_asm == <<97, 115, 109>>
N_w == <<119>>
N_j == <<106>>
N_f == <<102>>
N_g == <<103>>
N_h == <<104>>
N_E == <<69>>
N_A == <<65>>
N_I == <<73>>
N_S == <<83>>
N_T == <<84>>
N_k == <<107>>
N_i == <<105>>

Call0(name) == Call(Id(name), <<>>)
Returning(e) == Block(<<Return(e)>>)
Nums(codes) == [i \in 1..Len(codes) |-> Num(codes[i])]
Strs(strs) == [i \in 1..Len(strs) |-> Str(strs[i])]

\* name.split("").reverse().join("")
ReverseCall(name) ==
  Call(Dot(Call(Dot(Call(Dot(Id(name), Id(S_split)), <<Str(<<>>)>>),
                    Id(S_reverse)), <<>>),
           Id(S_join)), <<Str(<<>>)>>)

\* var j = "..."; then a function returning the reversal of j, declared
\* (form 1) or bound to a variable (form 2)
RevFrag(str, form) ==
  <<Var(N_j, Str(str)),
    IF form = 1 THEN FuncDecl(N_f, Returning(ReverseCall(N_j)))
    ELSE Var(N_f, FuncExpr(Returning(ReverseCall(N_j))))>>

RevFrags == {RevFrag(str, form) : str \in {Hex32, S_hello, NonHex32}, form \in {1, 2}}

FromCharCodeCall(args) == Call(Dot(Id(S_String), Id(S_fromCharCode)), args)

CodeLists == {S_hello, Pattern(<<49, 97>>, 64), Pattern(<<103>>, 64), Hex32, <<>>}

\* var E = [codes]; function g() { return String.fromCharCode(...E); }
SpreadFrag(codes) ==
  <<Var(N_E, Arr(Nums(codes))),
    FuncDecl(N_g, Returning(FromCharCodeCall(<<Spread(Id(N_E))>>)))>>

\* String.fromCharCode(codes);
DirectFrag(codes) == <<ExprStmt(FromCharCodeCall(Nums(codes)))>>

CharCodeFrags ==
  {SpreadFrag(codes) : codes \in CodeLists} \cup {DirectFrag(codes) : codes \in CodeLists}

JoinCall(name) == ExprStmt(Call(Dot(Id(name), Id(S_join)), <<Str(<<>>)>>))

\* var A = [strs]; then A.join(''); written reps times
JoinFrag(strs, reps) ==
  <<Var(N_A, Arr(Strs(strs)))>> \o [i \in 1..reps |-> JoinCall(N_A)]

StringLists == {<<<<97, 98>>, <<99, 100>>>>,
                <<Pattern(<<49, 97>>, 8), Pattern(<<50, 98>>, 8)>>,
                <<Pattern(<<103>>, 8), Pattern(<<50, 98>>, 8)>>,
                <<>>}

JoinFrags == {JoinFrag(strs, reps) : strs \in StringLists, reps \in 1..MaxRepeat}

\* var I = [indices]; var A = ["ab", "cd"];
\* I.map(function (i) { return String(A[i]); }).join('');
IndexedFragOf(indexElements) ==
  <<Var(N_I, Arr(indexElements)),
    Var(N_A, Arr(Strs(<<<<97, 98>>, <<99, 100>>>>))),
    ExprStmt(Call(Dot(Call(Dot(Id(N_I), Id(S_map)),
                           <<[FuncExpr(Returning(Call(Id(S_String),
                                                      <<Sub(Id(N_A), Id(N_i))>>)))
                              EXCEPT !.params = <<Id(N_i)>>]>>),
                      Id(S_join)), <<Str(<<>>)>>))>>

IndexedFrag == IndexedFragOf(<<Num(1), Num(0)>>)

\* [1, 0]; ["1", "0"]; [0, 2] (2 is out of range); ["x", 0] ("x" is no
\* number); [1, "7"]; []
IndexLists ==
  {<<Num(1), Num(0)>>, <<Str(<<49>>), Str(<<48>>)>>, <<Num(0), Num(2)>>,
   <<Str(<<120>>), Num(0)>>, <<Num(1), Str(<<55>>)>>, <<>>}

IndexedFrags == {IndexedFragOf(indexElements) : indexElements \in IndexLists}

Segments ==
  <<FuncDecl(N_a, Returning(Str(S_aaaa))),
    FuncDecl(N_b, Returning(Str(S_bbbb))),
    FuncDecl(N_c, Returning(Str(S_cccc)))>>

Plus(l, r) == Bin("+", l, r)

\* the return expressions of the assembler
Chains ==
  {Plus(Plus(Call0(N_a), Call0(N_b)), Call0(N_c)),
   Plus(Plus(Plus(Call0(N_a), Call0(N_b)), Call0(N_c)), Call0(N_a)),
   Plus(Plus(Call0(N_a), Call0(N_z)), Call0(N_c)),
   Plus(Call0(N_a), Str(S_bbbb)),
   Bin("|", Call0(N_a), Call0(N_b)),
   Call0(N_a)}

\* the statement nested depth times in a block statement (wrap 1) or in
\* the body of a function declaration (wrap 2)
RECURSIVE Nest(_, _, _)
Nest(stmt, depth, wrap) ==
  IF depth = 0 THEN stmt
  ELSE IF wrap = 1 THEN Block(<<Nest(stmt, depth - 1, wrap)>>)
  ELSE FuncDecl(N_w, Block(<<Nest(stmt, depth - 1, wrap)>>))

SegFrag(chain, depth, wrap) ==
  Segments \o <<Nest(FuncDecl(N_asm, Returning(chain)), depth, wrap)>>

SegFrags ==
  {SegFrag(chain, depth, wrap) : chain \in Chains, depth \in 0..MaxDepth,
                                 wrap \in {1, 2}}

\* var S = {a: ""}; function h() { return S.a + S.a; }
EmptyPropertyFrag ==
  <<Var(N_S, Obj(<<Prop(Id(N_a), Str(<<>>))>>)),
    FuncDecl(N_h, Returning(Plus(Dot(Id(N_S), Id(N_a)), Dot(Id(N_S), Id(N_a)))))>>

\* var S = {a: "aaaa", b: function () { return "bbbb"; }}; var T = S;
\* function h() { return T.a + T.b(); }
AliasFrag ==
  <<Var(N_S, Obj(<<Prop(Id(N_a), Str(S_aaaa)),
                   Prop(Id(N_b), FuncExpr(Returning(Str(S_bbbb))))>>)),
    Var(N_T, Id(N_S)),
    FuncDecl(N_h, Returning(Plus(Dot(Id(N_T), Id(N_a)),
                                 Call(Dot(Id(N_T), Id(N_b)), <<>>))))>>

\* function k() { { return "aaaa"; } }
NestedReturnFrag ==
  <<FuncDecl(N_k, Block(<<Returning(Str(S_aaaa))>>))>>

ObjFrags == {EmptyPropertyFrag, AliasFrag, NestedReturnFrag}

\* function k() { if (c) { return "aaaa"; } else { return "bbbb"; } }
\* function k() { if (c) return "aaaa"; return "bbbb"; }
\* var k = function () { return "aaaa"; return "bbbb"; };
\* function k() { g(); }
BranchFrags ==
  {<<FuncDecl(N_k, Block(<<If(Id(N_c), Returning(Str(S_aaaa)),
                              Returning(Str(S_bbbb)))>>))>>,
   <<FuncDecl(N_k, Block(<<If(Id(N_c), Return(Str(S_aaaa)), NoNode),
                           Return(Str(S_bbbb))>>))>>,
   <<Var(N_k, FuncExpr(Block(<<Return(Str(S_aaaa)), Return(Str(S_bbbb))>>)))>>,
   <<FuncDecl(N_k, Block(<<ExprStmt(Call0(N_g))>>))>>}

\* var A = ["ab"]; A = ["cd", "ef"];
\* A = ["ab"]; var A = ["cd", "ef"];
\* var A = ["ab"]; A = f();
\* var A = "aaaa"; var I = A;
ArrayFrags ==
  {<<Var(N_A, Arr(Strs(<<<<97, 98>>>>))),
     ExprStmt(Assign(Id(N_A), Arr(Strs(<<<<99, 100>>, <<101, 102>>>>))))>>,
   <<ExprStmt(Assign(Id(N_A), Arr(Strs(<<<<97, 98>>>>)))),
     Var(N_A, Arr(Strs(<<<<99, 100>>, <<101, 102>>>>)))>>,
   <<Var(N_A, Arr(Strs(<<<<97, 98>>>>))),
     ExprStmt(Assign(Id(N_A), Call0(N_f)))>>,
   <<Var(N_A, Str(S_aaaa)), Var(N_I, Id(N_A))>>}

\* function (i) { return e; }
Callback(e) == [FuncExpr(Returning(e)) EXCEPT !.params = <<Id(N_i)>>]

MapJoinCall(name, callback) ==
  ExprStmt(Call(Dot(Call(Dot(Id(name), Id(S_map)), <<callback>>), Id(S_join)),
                <<Str(<<>>)>>))

\* var A = ["ab", "cd"]; A.join();
\* var A = ["ab", "cd"]; A.map(function (i) { return "z"; }).join("");
\* var A = ["ab", "cd"]; A.map(function (i) { return i; }).join("");
NativeJoinFrags ==
  {<<Var(N_A, Arr(Strs(<<<<97, 98>>, <<99, 100>>>>))),
     ExprStmt(Call(Dot(Id(N_A), Id(S_join)), <<>>))>>,
   <<Var(N_A, Arr(Strs(<<<<97, 98>>, <<99, 100>>>>))),
     MapJoinCall(N_A, Callback(Str(<<122>>)))>>,
   <<Var(N_A, Arr(Strs(<<<<97, 98>>, <<99, 100>>>>))),
     MapJoinCall(N_A, Callback(Id(N_i)))>>}

\* programs for the collectors and for the joins
CollectorFrags == BranchFrags \cup ArrayFrags \cup NativeJoinFrags

Programs ==
  {R \o X : R \in {<<>>} \cup RevFrags,
            X \in {<<>>} \cup CharCodeFrags \cup JoinFrags \cup IndexedFrags
                  \cup SegFrags \cup ObjFrags}
  \cup CollectorFrags

Init ==
  /\ vKey = <<>> /\ vRes = NullObj
  /\ prog \in Programs
  /\ Fresh
  /\ PipeIdle /\ SimpIdle
  /\ pc = Enter(1, Flat(prog)).pc
  /\ idx = Enter(1, Flat(prog)).idx

Next ==
  \/ Scan1Visit \/ Scan2Visit \/ Scan3Visit \/ Gate
  \/ Pass1Visit \/ MergeAliases \/ ArrayVisit \/ SegmentVisit
  \/ ExtractVisit \/ PrintResults

Spec == Init /\ [][Next]_vars

-----------------------------------------------------------------------------
(* The validator run: validateKey applied to one candidate.                *)

RunIdle == prog = <<>> /\ pc = "idle" /\ idx = 0 /\ Fresh

ValInit ==
  /\ vKey \in {Pattern(seed, n) : seed \in Seeds, n \in 0..MaxKeyLen}
  /\ vRes = NullObj
  /\ RunIdle
  /\ PipeIdle /\ SimpIdle

Validate ==
  /\ vRes = NullObj
  /\ vRes' = validateKey(vKey, "candidate", "unknown")
  /\ UNCHANGED <<vKey, runVars, pipeVars, simpVars>>

ValNext == Validate

SpecValidate == ValInit /\ [][ValNext]_vars

-----------------------------------------------------------------------------
(* deobfuscate.js: the driver script.  Code is a record of the node types  *)
(* of the input program, in traversal order, and of the passes applied to  *)
(* it so far; the passes whose plugins are not at hand are represented by  *)
(* their outcome only.                                                     *)

Code(nodes, passes) == [nodes |-> nodes, passes |-> passes]

\* the result of babel.transformSync when it returns: result.code is the
\* empty string for a program without statements
EmptyCode == Code(<<>>, <<>>)

\* transformers/centralDebug.js
setDebug(value) == value

\* log / warn / error of centralDebug.js: if (DEBUG) console.log(...args)
log(flag, line, out) == IF flag THEN Append(out, line) ELSE out

\* DebugLogger.log of config/debug.js
DebugLogger_log(category, config, line, out) ==
  IF config.Enabled /\ config[category] THEN Append(out, line) ELSE out

CentralLine(pass) == [by |-> "central", pass |-> pass]
CategoryLine(pass) == [by |-> "category", pass |-> pass]
KeyLine(pass) == [by |-> "key", pass |-> pass]
ErrorLine(pass) == [by |-> "error", pass |-> pass]

\* the plugins of each pass, in the order of the plugins array
Plugins(pass) ==
  CASE pass = 1 -> <<"normalizeLiterals", "controlFlowUnflattener">>
    [] pass = 2 -> <<"inlineArrayBuilder", "inlineWrapperFunctions">>
    [] pass = 3 -> <<"solveStringArray", "solveStateMachine">>
    [] pass = 4 -> <<"inlineStringArray">>
    [] pass = 5 -> <<"inlineObjectFunctionProperties", "removeDeadBranches",
                     "removeUnusedVariables">>
    [] pass = 6 -> <<"findAndExtractKeyPlugin">>
    [] OTHER -> <<>>

\* the node types a plugin's visitor names
normalizeLiteralsVisits ==
  {"UnaryExpression", "BinaryExpression", "MemberExpression", "StringLiteral"}

\* the control-flow unflattener replaces dispatch loops
controlFlowUnflattenerVisits == {"WhileStatement", "ForStatement"}

VisitorOf(plugin) ==
  CASE plugin = "normalizeLiterals" -> normalizeLiteralsVisits
    [] plugin = "controlFlowUnflattener" -> controlFlowUnflattenerVisits
    [] OTHER -> {}

VisitEvent(pass, plugin, at) ==
  [ev |-> "visit", pass |-> pass, plugin |-> plugin, at |-> at, code |-> NoCode,
   outcome |-> "none"]
StartEvent(pass, input) ==
  [ev |-> "start", pass |-> pass, plugin |-> "", at |-> 0, code |-> input,
   outcome |-> "none"]
EndEvent(pass, outcome, output) ==
  [ev |-> "end", pass |-> pass, plugin |-> "", at |-> 0, code |-> output,
   outcome |-> outcome]

\* the handlers called on the at-th node: the plugins of one transformSync
\* call share a single traversal, and on each node the handlers of the
\* plugins that name its type are called in the order of the plugins
RECURSIVE NodeVisits(_, _, _, _)
NodeVisits(pass, plugins, nodes, at) ==
  IF plugins = <<>> THEN <<>>
  ELSE (IF nodes[at] \in VisitorOf(Head(plugins))
        THEN <<VisitEvent(pass, Head(plugins), at)>> ELSE <<>>)
       \o NodeVisits(pass, Tail(plugins), nodes, at)

RECURSIVE mergedTraversal(_, _, _)
mergedTraversal(pass, nodes, at) ==
  IF at > Len(nodes) THEN <<>>
  ELSE NodeVisits(pass, Plugins(pass), nodes, at)
       \o mergedTraversal(pass, nodes, at + 1)

\* result.code of babel.transformSync(input, {plugins, code: true})
transformSync(input, pass, outcome) ==
  IF outcome = "empty" THEN [code |-> EmptyCode]
  ELSE [code |-> Code(input.nodes, Append(input.passes, pass))]

\* a faulty variant, for comparison: only a missing result counts
passFailed_IgnoreEmpty(result) == result = NoCode

\* !result || !result.code
passFailed(result) == result = NoCode \/ result.code = EmptyCode

\* what babel.transformSync can do with the input: throw, or return code,
\* which is the empty string if the program has no statement (left)
Outcomes(input) ==
  IF input.nodes = <<>> THEN {"throws", "empty"} ELSE {"throws", "empty", "code"}

\* the most keys the extraction plugin prints in one run of the driver
MaxKeys == 1

\* the code a pass is run on: the input file for pass 1, then the code the
\* pass before assigned to intermediateCode
passInput(pass, source, intermediate) ==
  IF pass = 1 THEN source ELSE intermediate

\* a faulty variant, for comparison: output.js is made from the result of
\* the extraction pass
outputSource_FromExtraction(intermediate, keyExtractionResult) ==
  keyExtractionResult.code

\* the code the last transformSync, without plugins, is run on
outputSource(intermediate, keyExtractionResult) == intermediate

StageOf(pass) ==
  CASE pass = 1 -> "pass1" [] pass = 2 -> "pass2" [] pass = 3 -> "pass3"
    [] pass = 4 -> "pass4" [] pass = 5 -> "pass5" [] pass = 6 -> "pass6"
    [] OTHER -> "write"

\* the debug.log calls before the transform of a pass
Started(pass, flag, out) ==
  IF pass = 1 THEN log(flag, CentralLine(1), log(flag, CentralLine(0), out))
  ELSE log(flag, CentralLine(pass), out)

\* the catch block: console.error(...), process.exit(1)
Abort(pass, out) ==
  /\ console' = Append(out, ErrorLine(pass))
  /\ exitStatus' = 1
  /\ stage' = "exited"

\* if (silentMode) setDebug(false)
Start ==
  /\ stage = "start"
  /\ DEBUG' = IF silentMode THEN setDebug(FALSE) ELSE DEBUG
  /\ stage' = "pass1"
  /\ UNCHANGED <<valVars, runVars, simpVars, silentMode, DEBUG_CONFIG, inputCode,
                 intermediateCode, events, console, exitStatus, outputFile>>

\* passes 1 to 5: transformSync, the test of its result, intermediateCode
RunPass(pass) ==
  /\ stage = StageOf(pass)
  /\ \E outcome \in Outcomes(passInput(pass, inputCode, intermediateCode)) :
       IF \/ outcome = "throws"
          \/ passFailed(transformSync(passInput(pass, inputCode, intermediateCode),
                                      pass, outcome))
       THEN /\ events' = events \o
                 <<StartEvent(pass, passInput(pass, inputCode, intermediateCode)),
                   EndEvent(pass, outcome, NoCode)>>
            /\ Abort(pass, Started(pass, DEBUG, console))
            /\ UNCHANGED intermediateCode
       ELSE /\ events' = events \o
                 <<StartEvent(pass, passInput(pass, inputCode, intermediateCode))>>
                 \o mergedTraversal(pass, inputCode.nodes, 1)
                 \o <<EndEvent(pass, outcome,
                       transformSync(passInput(pass, inputCode, intermediateCode),
                                     pass, outcome).code)>>
            /\ intermediateCode' =
                 transformSync(passInput(pass, inputCode, intermediateCode),
                               pass, outcome).code
            /\ console' = log(DEBUG, CentralLine(pass), Started(pass, DEBUG, console))
            /\ stage' = StageOf(pass + 1)
            /\ UNCHANGED exitStatus
  /\ UNCHANGED <<valVars, runVars, simpVars, silentMode, DEBUG, DEBUG_CONFIG,
                 inputCode, outputFile>>

Pass1 == RunPass(1)
Pass2 == RunPass(2)
Pass3 == RunPass(3)
Pass4 == RunPass(4)
Pass5 == RunPass(5)

RECURSIVE KeyLines(_, _)
KeyLines(keys, out) ==
  IF keys = 0 THEN out ELSE Append(KeyLines(keys - 1, out), KeyLine(6))

\* pass 6: the extraction plugin prints the keys it found with console.log
\* and reports through the PERFORMANCE logger; the result is not looked at
Pass6 ==
  /\ stage = "pass6"
  /\ \E outcome \in {"throws", "code"}, keys \in 0..MaxKeys :
       IF outcome = "throws"
       THEN /\ events' = events \o <<StartEvent(6, intermediateCode),
                                     EndEvent(6, outcome, NoCode)>>
            /\ Abort(6, Started(6, DEBUG, console))
       ELSE /\ events' = events \o <<StartEvent(6, intermediateCode),
                                     EndEvent(6, outcome, NoCode)>>
            /\ console' =
                 log(DEBUG, CentralLine(6),
                     DebugLogger_log("PERFORMANCE", DEBUG_CONFIG, CategoryLine(6),
                                     KeyLines(keys, Started(6, DEBUG, console))))
            /\ stage' = "write"
            /\ UNCHANGED exitStatus
  /\ UNCHANGED <<valVars, runVars, simpVars, silentMode, DEBUG, DEBUG_CONFIG,
                 inputCode, intermediateCode, outputFile>>

\* the transform without plugins, output.js, and the end of the script
WriteOutput ==
  /\ stage = "write"
  /\ IF outputSource(intermediateCode, [code |-> NoCode]) = NoCode
     THEN /\ Abort(7, console)
          /\ UNCHANGED outputFile
     ELSE /\ outputFile' =
               IF passFailed(transformSync(
                    outputSource(intermediateCode, [code |-> NoCode]), 7, "code"))
               THEN outputFile
               ELSE transformSync(
                      outputSource(intermediateCode, [code |-> NoCode]), 7, "code").code
          /\ console' = log(DEBUG, CentralLine(7), console)
          /\ exitStatus' = 0
          /\ stage' = "exited"
  /\ UNCHANGED <<valVars, runVars, simpVars, silentMode, DEBUG, DEBUG_CONFIG,
                 inputCode, intermediateCode, events>>

\* the input programs: the types of their nodes in traversal order
Sources ==
  {<<>>, <<"ExpressionStatement">>, <<"BinaryExpression">>, <<"WhileStatement">>,
   <<"BinaryExpression", "WhileStatement">>,
   <<"WhileStatement", "BinaryExpression">>}

PipeInit ==
  /\ vKey = <<>> /\ vRes = NullObj
  /\ RunIdle /\ SimpIdle
  /\ silentMode \in BOOLEAN
  /\ DEBUG \in BOOLEAN
  /\ DEBUG_CONFIG \in [Enabled : BOOLEAN, PERFORMANCE : BOOLEAN]
  /\ stage = "start"
  /\ inputCode \in {Code(nodes, <<>>) : nodes \in Sources}
  /\ intermediateCode = NoCode
  /\ events = <<>> /\ console = <<>>
  /\ exitStatus = -1 /\ outputFile = NoCode

PipeNext ==
  \/ Start \/ Pass1 \/ Pass2 \/ Pass3 \/ Pass4 \/ Pass5 \/ Pass6 \/ WriteOutput

SpecPipeline == PipeInit /\ [][PipeNext]_vars

-----------------------------------------------------------------------------
(* The simplifier plugins: removeDeadBranches, removeUnusedVariables and   *)
(* normalizeLiterals, as functions of the list of statements of a program. *)

BoolLit(v) == [t |-> "BooleanLiteral", value |-> v]
Unary(op, a) == [t |-> "UnaryExpression", operator |-> op, argument |-> a]
While(c, body) == [t |-> "WhileStatement", test |-> c, body |-> body]

TreeChildren(n) ==
  CASE n.t = "WhileStatement" -> <<n.test, n.body>>
    [] n.t = "UnaryExpression" -> <<n.argument>>
    [] OTHER -> Children(n)

\* the nodes of a list of subtrees, in pre-order
RECURSIVE TreeNodes(_)
TreeNodes(ns) ==
  IF Len(ns) = 0 THEN <<>>
  ELSE <<Head(ns)>> \o TreeNodes(TreeChildren(Head(ns))) \o TreeNodes(Tail(ns))

\* the operators of the switch
ComparisonOperators == {"<", ">", "<=", ">=", "==", "===", "!=", "!=="}

\* a faulty variant, for comparison: <= decided as <
comparison_StrictLessOrEqual(operator, l, r) ==
  CASE operator \in {"<", "<="} -> l < r
    [] operator = ">" -> l > r
    [] operator = ">=" -> l >= r
    [] operator \in {"==", "==="} -> l = r
    [] operator \in {"!=", "!=="} -> l # r

\* the cases of the switch, on the values of two numeric literals
comparison(operator, l, r) ==
  CASE operator = "<" -> l < r
    [] operator = ">" -> l > r
    [] operator = "<=" -> l <= r
    [] operator = ">=" -> l >= r
    [] operator \in {"==", "==="} -> l = r
    [] operator \in {"!=", "!=="} -> l # r

\* result after the if/else-if chain on the test: boolean says whether
\* typeof result === "boolean", value is the result then
Result(value) == [boolean |-> TRUE, value |-> value]
NoResult == [boolean |-> FALSE, value |-> FALSE]

branchResult(test) ==
  IF test.t = "BooleanLiteral" THEN Result(test.value)
  ELSE IF test.t = "NumericLiteral" THEN Result(test.value # 0)
  ELSE IF /\ test.t = "BinaryExpression"
          /\ test.left.t = "NumericLiteral" /\ test.right.t = "NumericLiteral"
          /\ test.operator \in ComparisonOperators
       THEN Result(comparison(test.operator, test.left.value, test.right.value))
  ELSE NoResult

\* branch.body || [branch], as replaceWithMultiple takes it: a value that is
\* not an array (the body of a loop or of a function) is made a list of one
branchNodes(branch) ==
  IF "body" \in DOMAIN branch
  THEN (IF branch.t = "BlockStatement" THEN branch.body ELSE <<branch.body>>)
  ELSE <<branch>>

\* the nodes an if-statement with a boolean result is replaced with
takenNodes(node, result) ==
  IF result.value THEN branchNodes(node.consequent)
  ELSE IF node.alternate.t # "null" THEN branchNodes(node.alternate)
  ELSE <<>>

\* one call of the IfStatement visitor
IfVisit(node, result, nodes) ==
  [node |-> node, result |-> result, nodes |-> nodes]

Traversed(nodes, visits) == [nodes |-> nodes, visits |-> visits]

\* the traversal of programPath.traverse: deadBranchList for the statements
\* of a list, deadBranchSlot for a statement that is a branch or a loop
\* body.  The nodes put in place of an if-statement are queued and visited;
\* where the if-statement is not in a list, they are put in a new block; a
\* removed consequent or loop body becomes an empty block, a removed
\* alternate disappears.
RECURSIVE deadBranchList(_)
RECURSIVE deadBranchStmt(_)
RECURSIVE deadBranchSlot(_, _)
deadBranchStmt(s) ==
  CASE s.t = "IfStatement" ->
         LET result == branchResult(s.test)
         IN IF result.boolean
            THEN LET nodes == takenNodes(s, result)
                     sub == deadBranchList(nodes)
                 IN Traversed(sub.nodes, <<IfVisit(s, result, nodes)>> \o sub.visits)
            ELSE LET c == deadBranchSlot(s.consequent, "consequent")
                     a == deadBranchSlot(s.alternate, "alternate")
                 IN Traversed(<<If(s.test, c.nodes[1], a.nodes[1])>>,
                              <<IfVisit(s, result, <<s>>)>> \o c.visits \o a.visits)
    [] s.t = "BlockStatement" ->
         LET sub == deadBranchList(s.body)
         IN Traversed(<<Block(sub.nodes)>>, sub.visits)
    [] s.t = "WhileStatement" ->
         LET b == deadBranchSlot(s.body, "body")
         IN Traversed(<<While(s.test, b.nodes[1])>>, b.visits)
    [] s.t = "FunctionDeclaration" ->
         LET sub == deadBranchList(s.body.body)
         IN Traversed(<<[s EXCEPT !.body = Block(sub.nodes)]>>, sub.visits)
    [] OTHER -> Traversed(<<s>>, <<>>)

deadBranchList(stmts) ==
  IF Len(stmts) = 0 THEN Traversed(<<>>, <<>>)
  ELSE LET first == deadBranchStmt(Head(stmts))
           rest == deadBranchList(Tail(stmts))
       IN Traversed(first.nodes \o rest.nodes, first.visits \o rest.visits)

deadBranchSlot(s, key) ==
  IF s.t = "null" THEN Traversed(<<NoNode>>, <<>>)
  ELSE IF s.t = "IfStatement" /\ branchResult(s.test).boolean
  THEN LET result == branchResult(s.test)
           nodes == takenNodes(s, result)
           sub == deadBranchList(nodes)
           removed == ~result.value /\ s.alternate.t = "null"
       IN Traversed(<<IF removed /\ key = "alternate" THEN NoNode
                      ELSE Block(sub.nodes)>>,
                    <<IfVisit(s, result, nodes)>> \o sub.visits)
  ELSE deadBranchStmt(s)

\* the Program visitor of the plugin
removeDeadBranches(program) == deadBranchList(program)

\* the names with a referenced identifier in the nodes: an identifier that
\* is read.  The id of a declaration and the identifier on the left of an
\* assignment are not references.  All names of a program are taken to be
\* bindings of one scope.
RECURSIVE referencedNames(_)
referencedNames(ns) ==
  IF Len(ns) = 0 THEN {}
  ELSE LET n == Head(ns)
           here ==
             CASE n.t = "Identifier" -> {n.name}
               [] n.t = "VariableDeclarator" ->
                    IF n.init.t = "null" THEN {} ELSE referencedNames(<<n.init>>)
               [] n.t = "FunctionDeclaration" -> referencedNames(<<n.body>>)
               [] n.t = "AssignmentExpression" ->
                    (IF n.left.t = "Identifier" THEN {}
                     ELSE referencedNames(<<n.left>>))
                    \cup referencedNames(<<n.right>>)
               [] OTHER -> referencedNames(TreeChildren(n))
       IN here \cup referencedNames(Tail(ns))

\* binding && !binding.referenced, after programPath.scope.crawl()
unreferenced(program, name) == name \notin referencedNames(program)

\* the paths pushed to toRemove, by the name they declare: the declarations
\* the traversal finds unreferenced, all found before any is removed
toRemove(program) ==
  LET nodes == TreeNodes(program)
      found == {i \in 1..Len(nodes) :
                  /\ nodes[i].t \in {"FunctionDeclaration", "VariableDeclarator"}
                  /\ unreferenced(program, nodes[i].id.name)}
  IN {nodes[i].id.name : i \in found}

\* toRemove.forEach(p => p.remove()): a declaration whose only declarator
\* is removed is removed with it; a removed consequent or loop body
\* becomes an empty block, a removed alternate disappears
RECURSIVE removeFromList(_, _)
RECURSIVE removeFromSlot(_, _, _)
removeFromStmt(s, removing) ==
  CASE s.t = "IfStatement" ->
         If(s.test, removeFromSlot(s.consequent, "consequent", removing),
            removeFromSlot(s.alternate, "alternate", removing))
    [] s.t = "BlockStatement" -> Block(removeFromList(s.body, removing))
    [] s.t = "WhileStatement" ->
         While(s.test, removeFromSlot(s.body, "body", removing))
    [] s.t = "FunctionDeclaration" ->
         [s EXCEPT !.body = Block(removeFromList(s.body.body, removing))]
    [] OTHER -> s

isRemoved(s, removing) ==
  \/ s.t = "FunctionDeclaration" /\ s.id.name \in removing
  \/ s.t = "VariableDeclaration" /\ s.declarations[1].id.name \in removing

removeFromList(stmts, removing) ==
  IF Len(stmts) = 0 THEN <<>>
  ELSE (IF isRemoved(Head(stmts), removing) THEN <<>>
        ELSE <<removeFromStmt(Head(stmts), removing)>>)
       \o removeFromList(Tail(stmts), removing)

removeFromSlot(s, key, removing) ==
  IF s.t = "null" THEN NoNode
  ELSE IF isRemoved(s, removing)
  THEN (IF key = "alternate" THEN NoNode ELSE Block(<<>>))
  ELSE removeFromStmt(s, removing)

\* the Program visitor of the plugin: one crawl, one traversal that
\* collects, one round of removals
removeUnusedVariables(program) == removeFromList(program, toRemove(program))

\* a faulty variant, for comparison: the bindings are those of the program
\* as it was before the dead branches went
simplification_StaleBindings(program) ==
  LET dead == removeDeadBranches(program)
  IN [pruned |-> dead.nodes, visits |-> dead.visits,
      nodes |-> removeFromList(dead.nodes, toRemove(program))]

\* pass 5: the Program visitors of the plugins run in the order of the
\* plugin list, removeDeadBranches to its end and then
\* removeUnusedVariables, which crawls the scope before it looks at a
\* binding
simplification(program) ==
  LET dead == removeDeadBranches(program)
  IN [pruned |-> dead.nodes, visits |-> dead.visits,
      nodes |-> removeUnusedVariables(dead.nodes)]

\* the result of path.evaluate()
Value(kind, v) == [confident |-> TRUE, kind |-> kind, v |-> v]
Deopt == [confident |-> FALSE, kind |-> "none", v |-> 0]

\* where the declarators that bind a name are, and where the assignments
\* to it (the constant violations of the binding)
declaratorsOf(program, name) ==
  {i \in 1..Len(TreeNodes(program)) :
     LET n == TreeNodes(program)[i]
     IN n.t = "VariableDeclarator" /\ n.id.name = name}

constantViolations(program, name) ==
  {i \in 1..Len(TreeNodes(program)) :
     LET n == TreeNodes(program)[i]
     IN n.t = "AssignmentExpression" /\ n.left.t = "Identifier"
        /\ n.left.name = name}

truthy(val) ==
  CASE val.kind = "boolean" -> val.v
    [] val.kind = "number" -> val.v # 0
    [] val.kind = "string" -> Len(val.v) > 0
    [] val.kind = "undefined" -> FALSE

\* a binary operator on two confident values: arithmetic and comparison
\* of numbers, concatenation of strings, equality of two values of a kind
evaluateBinary(operator, l, r) ==
  IF l.kind = "number" /\ r.kind = "number"
  THEN CASE operator = "+" -> Value("number", l.v + r.v)
         [] operator = "-" -> Value("number", l.v - r.v)
         [] operator = "*" -> Value("number", l.v * r.v)
         [] operator \in ComparisonOperators ->
              Value("boolean", comparison(operator, l.v, r.v))
         [] OTHER -> Deopt
  ELSE IF l.kind = "string" /\ r.kind = "string" /\ operator = "+"
  THEN Value("string", l.v \o r.v)
  ELSE IF l.kind = r.kind /\ operator \in {"==", "===", "!=", "!=="}
  THEN Value("boolean", comparison(operator, l.v, r.v))
  ELSE Deopt

\* path.evaluate() of Babel, for literals, unary - and !, the binary
\* operators above, void (whose value is undefined), and an identifier
\* bound by one declarator with an initial value and never assigned again
\* (its value is that of the init)
RECURSIVE evaluate(_, _)
evaluate(e, program) ==
  CASE e.t = "NumericLiteral" -> Value("number", e.value)
    [] e.t = "StringLiteral" -> Value("string", e.value)
    [] e.t = "BooleanLiteral" -> Value("boolean", e.value)
    [] e.t = "Identifier" ->
         LET ds == declaratorsOf(program, e.name)
         IN IF /\ Cardinality(ds) = 1
               /\ constantViolations(program, e.name) = {}
               /\ \A d \in ds :
                     /\ TreeNodes(program)[d].init.t # "null"
                     /\ e.name \notin referencedNames(<<TreeNodes(program)[d].init>>)
            THEN evaluate(TreeNodes(program)[CHOOSE d \in ds : TRUE].init, program)
            ELSE Deopt
    [] e.t = "UnaryExpression" ->
         LET a == evaluate(e.argument, program)
         IN IF e.operator = "void" THEN Value("undefined", 0)
            ELSE IF ~a.confident THEN Deopt
            ELSE IF e.operator = "-" /\ a.kind = "number"
                 THEN Value("number", 0 - a.v)
            ELSE IF e.operator = "!" THEN Value("boolean", ~truthy(a))
            ELSE Deopt
    [] e.t = "BinaryExpression" ->
         LET l == evaluate(e.left, program)
             r == evaluate(e.right, program)
         IN IF l.confident /\ r.confident
            THEN evaluateBinary(e.operator, l, r) ELSE Deopt
    [] OTHER -> Deopt

\* t.valueToNode: a negative number becomes a unary minus on a literal,
\* undefined the identifier undefined
valueToNode(val) ==
  CASE val.kind = "number" ->
         IF val.v < 0 THEN Unary("-", Num(0 - val.v)) ELSE Num(val.v)
    [] val.kind = "boolean" -> BoolLit(val.v)
    [] val.kind = "string" -> Str(val.v)
    [] val.kind = "undefined" -> Id(UndefinedText)

isLiteral(n) == n.t \in {"NumericLiteral", "StringLiteral", "BooleanLiteral"}

\* t.isIdentifier(node): the type of the node it is given
isIdentifier(node) == "t" \in DOMAIN node /\ node.t = "Identifier"

\* the exit handler on a unary or binary expression whose children have
\* been visited; t.isIdentifier is called on the object {name: "undefined"},
\* not on newNode
normalizeExit(e, program) ==
  LET evaluation == evaluate(e, program)
  IN IF /\ evaluation.confident
        /\ (\/ isLiteral(valueToNode(evaluation))
            \/ isIdentifier([name |-> UndefinedText]))
     THEN valueToNode(evaluation) ELSE e

\* the traversal: the handler runs on the exit of a node, so on the
\* children first
RECURSIVE normalizeExpr(_, _)
normalizeExpr(e, program) ==
  CASE e.t = "UnaryExpression" ->
         normalizeExit([e EXCEPT !.argument = normalizeExpr(@, program)], program)
    [] e.t = "BinaryExpression" ->
         normalizeExit([e EXCEPT !.left = normalizeExpr(@, program),
                                 !.right = normalizeExpr(@, program)], program)
    [] e.t = "AssignmentExpression" ->
         [e EXCEPT !.right = normalizeExpr(@, program)]
    [] e.t = "CallExpression" ->
         [e EXCEPT !.arguments =
            [i \in 1..Len(@) |-> normalizeExpr(@[i], program)]]
    [] OTHER -> e

RECURSIVE normalizeStmt(_, _)
normalizeStmt(s, program) ==
  CASE s.t = "IfStatement" ->
         If(normalizeExpr(s.test, program), normalizeStmt(s.consequent, program),
            normalizeStmt(s.alternate, program))
    [] s.t = "BlockStatement" ->
         Block([i \in 1..Len(s.body) |-> normalizeStmt(s.body[i], program)])
    [] s.t = "WhileStatement" ->
         While(normalizeExpr(s.test, program), normalizeStmt(s.body, program))
    [] s.t = "FunctionDeclaration" ->
         [s EXCEPT !.body = normalizeStmt(@, program)]
    [] s.t = "ExpressionStatement" -> ExprStmt(normalizeExpr(s.expression, program))
    [] s.t = "VariableDeclaration" ->
         [s EXCEPT !.declarations[1].init =
            IF @.t = "null" THEN @ ELSE normalizeExpr(@, program)]
    [] OTHER -> s

\* the plugin on a program
normalizeLiterals(program) ==
  [i \in 1..Len(program) |-> normalizeStmt(program[i], program)]

-----------------------------------------------------------------------------
(* Runs of the simplifier plugins on a family of programs.                 *)

N_x == <<120>>
N_y == <<121>>
N_B == <<66>>
N_C == <<67>>

\* the largest numeric literal in a test of the family
MaxNum == 1

\* the most plugin runs on one program
MaxApplied == 3

CallStmt(name) == ExprStmt(Call(Id(name), <<>>))

\* if (a op b) { f(); } [else { g(); }] between two statements
ComparisonTrees ==
  {<<CallStmt(N_a),
     If(Bin(op, Num(a), Num(b)), Block(<<CallStmt(N_f)>>), alt),
     CallStmt(N_z)>> :
     op \in ComparisonOperators \cup {"+", "-", "*"},
     a \in 0..MaxNum, b \in 0..MaxNum,
     alt \in {NoNode, Block(<<CallStmt(N_g)>>)}}

\* tests that are a literal, or a comparison with an operand that is not a
\* numeric literal
LiteralTests ==
  {BoolLit(TRUE), BoolLit(FALSE), Num(0), Num(MaxNum + 1),
   Bin("<", Id(N_a), Num(1)), Bin("===", Str(N_a), Str(N_a)),
   Unary("!", Num(0)), Bin("<", Unary("-", Num(1)), Num(0)),
   Unary("void", Num(0))}

LiteralTrees ==
  {<<If(test, consequent, alt), CallStmt(N_z)>> :
     test \in LiteralTests,
     consequent \in {CallStmt(N_f), Block(<<CallStmt(N_f), CallStmt(N_h)>>)},
     alt \in {NoNode, CallStmt(N_g)}}

\* if-statements inside branches, loops and functions, and a loop as a
\* branch
NestedTrees ==
  {<<If(BoolLit(TRUE),
        Block(<<If(Num(0), Block(<<CallStmt(N_f)>>), Block(<<CallStmt(N_g)>>)),
                CallStmt(N_h)>>), NoNode)>>,
   <<If(Id(N_c), If(BoolLit(TRUE), CallStmt(N_f), NoNode),
        If(BoolLit(FALSE), CallStmt(N_g), NoNode))>>,
   <<If(Id(N_c), If(BoolLit(FALSE), CallStmt(N_f), NoNode), NoNode)>>,
   <<While(Id(N_c), If(Num(2), CallStmt(N_f), NoNode))>>,
   <<While(Id(N_c), If(Num(0), CallStmt(N_f), NoNode))>>,
   <<If(BoolLit(TRUE), While(Id(N_c), Block(<<CallStmt(N_f)>>)), NoNode),
     CallStmt(N_z)>>,
   <<If(BoolLit(FALSE), CallStmt(N_f),
        If(Num(1), CallStmt(N_g), CallStmt(N_h)))>>,
   <<FuncDecl(N_f, Block(<<If(Bin("<", Num(1), Num(2)),
                              Block(<<CallStmt(N_g)>>), NoNode)>>)),
     CallStmt(N_f)>>}

\* declarations: a chain of functions A -> B -> C with A never called, a
\* chain of variables, a variable assigned in a dead branch, a variable
\* and a function read only in a dead branch, and a variable that is
\* written and never read
DeclarationTrees ==
  {<<FuncDecl(N_A, Block(<<CallStmt(N_B)>>)),
     FuncDecl(N_B, Block(<<CallStmt(N_C)>>)),
     FuncDecl(N_C, Block(<<>>)),
     CallStmt(N_f)>>,
   <<FuncDecl(N_A, Block(<<CallStmt(N_B)>>)),
     FuncDecl(N_B, Block(<<>>)),
     CallStmt(N_A)>>,
   <<Var(N_a, Num(1)), Var(N_b, Id(N_a)), CallStmt(N_f)>>,
   <<Var(N_x, Num(1)),
     If(BoolLit(FALSE), Block(<<ExprStmt(Assign(Id(N_x), Num(2)))>>), NoNode),
     ExprStmt(Assign(Id(N_y), Bin("+", Id(N_x), Num(1))))>>,
   <<Var(N_x, Num(1)),
     ExprStmt(Assign(Id(N_y), Bin("+", Id(N_x), Num(1))))>>,
   <<Var(N_x, Num(1)),
     If(BoolLit(FALSE), Block(<<ExprStmt(Assign(Id(N_y), Id(N_x)))>>), NoNode),
     CallStmt(N_g)>>,
   <<FuncDecl(N_A, Block(<<>>)),
     If(Bin("<", Num(1), Num(0)), CallStmt(N_A), CallStmt(N_g))>>,
   <<Var(N_x, Num(1)), ExprStmt(Assign(Id(N_x), Num(2))), CallStmt(N_f)>>}

Trees == ComparisonTrees \cup LiteralTrees \cup NestedTrees \cup DeclarationTrees

\* one run of a plugin: the program before, the program after, and the
\* calls of the IfStatement visitor
Applied(plugin, before, after, visits) ==
  [plugin |-> plugin, before |-> before, after |-> after, visits |-> visits]

NormalizeLiterals ==
  /\ Len(applied) < MaxApplied
  /\ tree' = normalizeLiterals(tree)
  /\ applied' = Append(applied, Applied("normalizeLiterals", tree, tree', <<>>))
  /\ UNCHANGED <<valVars, runVars, pipeVars, calls>>

RemoveDeadBranches ==
  /\ Len(applied) < MaxApplied
  /\ LET done == removeDeadBranches(tree)
     IN /\ tree' = done.nodes
        /\ applied' = Append(applied,
              Applied("removeDeadBranches", tree, done.nodes, done.visits))
  /\ UNCHANGED <<valVars, runVars, pipeVars, calls>>

RemoveUnusedVariables ==
  /\ Len(applied) < MaxApplied
  /\ tree' = removeUnusedVariables(tree)
  /\ applied' = Append(applied, Applied("removeUnusedVariables", tree, tree', <<>>))
  /\ UNCHANGED <<valVars, runVars, pipeVars, calls>>

\* pass 5 of the driver on the program: one transformSync with both plugins
Simplification ==
  /\ Len(applied) + 2 <= MaxApplied
  /\ LET done == simplification(tree)
     IN /\ tree' = done.nodes
        /\ applied' = applied \o
              <<Applied("removeDeadBranches", tree, done.pruned, done.visits)
                  @@ [pass |-> 5],
                Applied("removeUnusedVariables", done.pruned, done.nodes, <<>>)
                  @@ [pass |-> 5]>>
  /\ UNCHANGED <<valVars, runVars, pipeVars, calls>>

SimpInit ==
  /\ vKey = <<>> /\ vRes = NullObj
  /\ RunIdle /\ PipeIdle
  /\ tree \in Trees
  /\ applied = <<>> /\ calls = <<>>

SimpNext ==
  \/ NormalizeLiterals \/ RemoveDeadBranches \/ RemoveUnusedVariables
  \/ Simplification

SpecSimplify == SimpInit /\ [][SimpNext]_vars

-----------------------------------------------------------------------------
(* Runs of the two alias resolvers and of the merge loop on alias tables.  *)

\* the most entries of an alias table
MaxAliases == 3

\* the most calls of a resolver in one run
MaxCalls == 1

AliasNames == {N_a, N_b, N_c}

\* the alias tables: any name may be the alias of any name, itself included
AliasTables ==
  {am \in UNION {[1..k -> AliasNames \X AliasNames] : k \in 0..MaxAliases} :
     \A i, j \in 1..Len(am) : i # j => am[i][1] # am[j][1]}

\* object property tables: each object has one property, named as the object
PropertyTables ==
  {[n \in S |-> [k \in {n} |-> Str(n)]] :
     S \in {{}, {N_a}, {N_a, N_b}, {N_a, N_b, N_c}}}

ResolverCall(resolver, name, result) ==
  [resolver |-> resolver, name |-> name, result |-> result]

\* the resolveAlias of the plugin, called on a name
ResolveAlias ==
  /\ Len(calls) < MaxCalls
  /\ \E name \in AliasNames :
        calls' = Append(calls,
                   ResolverCall("resolveAlias", name, resolveAlias(aliasMap, name)))
  /\ UNCHANGED <<valVars, runVars, pipeVars, tree, applied>>

\* ConcatenatedKeyExtractor.resolveObjectName, called on a name
ResolveObjectName ==
  /\ Len(calls) < MaxCalls
  /\ \E name \in AliasNames :
        calls' = Append(calls,
                   ResolverCall("resolveObjectName", name,
                                resolveObjectName(aliasMap, name)))
  /\ UNCHANGED <<valVars, runVars, pipeVars, tree, applied>>

\* the visitor about to run the merge loop, with the tables Pass 1 can
\* have collected
AliasInit ==
  /\ vKey = <<>> /\ vRes = NullObj
  /\ prog = <<>> /\ pc = "merge" /\ idx = 0
  /\ stringLiterals = EmptyMap
  /\ foundKeys = <<>> /\ nonHexCandidates = <<>> /\ wrongLengthCandidates = <<>>
  /\ objectPropertiesMap \in PropertyTables
  /\ aliasMap \in AliasTables
  /\ potentialKeyArrays = EmptyMap /\ segmentFunctionsMap = EmptyMap
  /\ skippedFunctions = {}
  /\ produced = <<>> /\ stdout = <<>>
  /\ PipeIdle /\ SimpIdle

AliasNext == ResolveAlias \/ ResolveObjectName \/ MergeAliases

SpecAlias == AliasInit /\ [][AliasNext]_vars

-----------------------------------------------------------------------------
(* FunctionKeyExtractor and printResults with findAllCandidates given: the *)
(* visitors are created with the flag, the results of deriveAndValidate    *)
(* come one return statement after the other, and the lists are printed.   *)

MaxResults == 3

\* what deriveAndValidate may hand over: nothing, two valid keys, a key
\* that is not hexadecimal, a key of a wrong length
Derived(value) == [value |-> value, segments |-> <<>>]

ExtractionResults ==
  <<validated(Unresolved, N_k).result,
    validated(Derived(Hex32), N_k).result,
    validated(Derived(Pattern(<<97>>, 32)), N_f).result,
    validated(Derived(NonHex32), N_k).result,
    validated(Derived(S_aaaa), N_k).result>>

CreateVisitors(findAllCandidates) ==
  [call |-> "createVisitors", findAllCandidates |-> findAllCandidates]

\* processReturnStatement / processImplicitReturn on a return: the result
\* goes to handleExtractionResult, and what that returns is dropped, so
\* the traversal goes on to the next return
ProcessReturnStatement ==
  /\ pc = "results"
  /\ Len(calls) <= MaxResults
  /\ \E i \in 1..Len(ExtractionResults) :
        LET result == ExtractionResults[i]
        IN /\ SetLists(handleExtractionResult(result, CurrentLists))
           /\ calls' = Append(calls,
                 [call |-> "handleExtractionResult", result |-> result,
                  returned |-> handleExtractionResultReturns(
                                 result, calls[1].findAllCandidates)])
  /\ UNCHANGED <<valVars, pipeVars, tree, applied, prog, pc, idx,
                 stringLiterals, tableVars, stdout>>

\* the traversal is over: printResults with the flag of the visitors
PrintFound ==
  /\ pc = "results"
  /\ stdout' = printResults(foundKeys, calls[1].findAllCandidates)
  /\ Goto([pc |-> "done", idx |-> 0])
  /\ UNCHANGED <<valVars, pipeVars, simpVars, prog, stringLiterals, listVars,
                 tableVars, produced>>

ExhaustiveInit ==
  /\ vKey = <<>> /\ vRes = NullObj
  /\ prog = <<>> /\ pc = "results" /\ idx = 0
  /\ Fresh
  /\ PipeIdle
  /\ tree = <<>> /\ applied = <<>>
  /\ calls \in {<<CreateVisitors(flag)>> : flag \in BOOLEAN}

ExhaustiveNext == ProcessReturnStatement \/ PrintFound

SpecExhaustive == ExhaustiveInit /\ [][ExhaustiveNext]_vars

-----------------------------------------------------------------------------
(* C1: validateKey returns exactly one tag: valid iff the length is one of *)
(* 16, 24, 32, 48, 51, 64 and every character is a hexadecimal digit,      *)
(* nonHex iff the length is one of those and some character is not a       *)
(* hexadecimal digit, wrongLength otherwise, and then the reported         *)
(* observed length is the candidate's length.                              *)
C1_HexDigits ==
  {48, 49, 50, 51, 52, 53, 54, 55, 56, 57, 65, 66, 67, 68, 69, 70,
   97, 98, 99, 100, 101, 102}

C1_ValidatorClassifies ==
  vRes # NullObj =>
    LET lenOk == Len(vKey) \in {16, 24, 32, 48, 51, 64}
        allHex == {vKey[i] : i \in 1..Len(vKey)} \subseteq C1_HexDigits
        tags == {f \in {"isValidKey", "isNonHex", "isWrongLength"} : Flag(vRes, f)}
    IN /\ Cardinality(tags) = 1
       /\ Flag(vRes, "isValidKey") <=> (lenOk /\ allHex)
       /\ Flag(vRes, "isNonHex") <=> (lenOk /\ ~allHex)
       /\ Flag(vRes, "isWrongLength") <=> ~lenOk
       /\ Flag(vRes, "isWrongLength") => vRes.actualLength = Len(vKey)
       /\ vRes.key = vKey

\* a 64-character candidate with a non-hex character was tagged nonHex, or
\* a 10-character hex candidate was tagged wrongLength
C1_Witness ==
  /\ vRes # NullObj
  /\ \/ Len(vKey) = 64 /\ ~IsHexStar(vKey) /\ Flag(vRes, "isNonHex")
     \/ Len(vKey) = 10 /\ IsHexStar(vKey) /\ Flag(vRes, "isWrongLength")

-----------------------------------------------------------------------------
(* What the claims about a run speak of.                                   *)

\* the string an entry of a result list stands for: a direct-scan entry is
\* the string itself, an extractor entry holds it as key or as result
ValueOf(e) ==
  IF "prim" \in DOMAIN e THEN e.prim
  ELSE IF "key" \in DOMAIN e THEN e.key ELSE e.result

\* the entries of the list that stand for the pair (value, type)
Holding(list, value, type) ==
  {i \in 1..Len(list) : ValueOf(list[i]) = value /\ GetType(list[i]) = type}

NoDuplicates(list) ==
  \A i, j \in 1..Len(list) :
     (i # j) => ~(/\ ValueOf(list[i]) = ValueOf(list[j])
                  /\ GetType(list[i]) = GetType(list[j]))

HexDigits ==
  {48, 49, 50, 51, 52, 53, 54, 55, 56, 57, 65, 66, 67, 68, 69, 70,
   97, 98, 99, 100, 101, 102}

IsValidKeyString(str) ==
  /\ Len(str) \in {16, 24, 32, 48, 51, 64}
  /\ \A i \in 1..Len(str) : str[i] \in HexDigits

\* C2: after any run, every entry of found is a string of hexadecimal
\* digits whose length is one of 16, 24, 32, 48, 51, 64, whichever scan or
\* extractor appended it.
C2_FoundOnlyValidKeys ==
  \A i \in 1..Len(foundKeys) : IsValidKeyString(ValueOf(foundKeys[i]))

\* C3: when the run is over, every string that a scan or an extractor
\* derived (the empty string included) is held by exactly one of found,
\* nonHex and wrongLength.
C3_EveryProducedClassified ==
  pc = "done" =>
    \A k \in 1..Len(produced) :
       Cardinality({l \in {"found", "nonHex", "wrongLength"} :
                      Holding(CurrentLists[l], produced[k].value,
                              produced[k].type) # {}}) = 1

\* C4: when the extraction traversal visits String.fromCharCode(...E) with
\* E recorded in the Array Table as an array of numeric literals, or
\* String.fromCharCode with numeric literal arguments only, the lists then
\* hold a candidate whose characters are the codes in element order; for
\* the codes 104,101,108,108,111 it is "hello", held by wrongLength with
\* observed length 5.
C4_IsStringFromCharCode(n) ==
  /\ n.t = "CallExpression"
  /\ n.callee.t = "MemberExpression"
  /\ n.callee.object.t = "Identifier" /\ n.callee.object.name = S_String
  /\ n.callee.property.t = "Identifier" /\ n.callee.property.name = S_fromCharCode

C4_IsSpread(n) ==
  /\ C4_IsStringFromCharCode(n)
  /\ Len(n.arguments) = 1
  /\ n.arguments[1].t = "SpreadElement"
  /\ n.arguments[1].argument.t = "Identifier"
  /\ n.arguments[1].argument.name \in DOMAIN potentialKeyArrays
  /\ \A i \in 1..Len(potentialKeyArrays[n.arguments[1].argument.name].elements) :
        potentialKeyArrays[n.arguments[1].argument.name].elements[i].t
          = "NumericLiteral"

C4_IsDirect(n) ==
  /\ C4_IsStringFromCharCode(n)
  /\ Len(n.arguments) > 0
  /\ \A i \in 1..Len(n.arguments) : n.arguments[i].t = "NumericLiteral"

\* the codes as characters; every code of the programs is a code unit
C4_Text(elements) == [i \in 1..Len(elements) |-> elements[i].value]

C4_Yielded(found, nonHex, wrongLength, text, type) ==
  /\ \/ Holding(found, text, type) # {}
     \/ Holding(nonHex, text, type) # {}
     \/ Holding(wrongLength, text, type) # {}
  /\ text = <<104, 101, 108, 108, 111>> =>
       \E i \in Holding(wrongLength, text, type) : wrongLength[i].length = 5

C4_CharCodeExtraction ==
  [][(pc = "extract" /\ (C4_IsSpread(Nodes[idx]) \/ C4_IsDirect(Nodes[idx]))) =>
       IF C4_IsSpread(Nodes[idx])
       THEN C4_Yielded(foundKeys', nonHexCandidates', wrongLengthCandidates',
              C4_Text(potentialKeyArrays[Nodes[idx].arguments[1].argument.name].elements),
              "fromCharCode_array")
       ELSE C4_Yielded(foundKeys', nonHexCandidates', wrongLengthCandidates',
              C4_Text(Nodes[idx].arguments), "fromCharCode_args")]_vars

\* E = [104,101,108,108,111] and String.fromCharCode(...E) were extracted:
\* wrongLength holds "hello" with length 5
C4_Witness ==
  /\ pc = "done"
  /\ N_E \in DOMAIN potentialKeyArrays
  /\ C4_Text(potentialKeyArrays[N_E].elements) = S_hello
  /\ \E i \in 1..Len(wrongLengthCandidates) :
        /\ wrongLengthCandidates[i].result = S_hello
        /\ wrongLengthCandidates[i].type = "fromCharCode_array"
        /\ wrongLengthCandidates[i].length = 5

\* C5: when the extraction traversal visits a function declaration or a
\* block statement below which every return expression is a chain of + or |
\* with a leaf that does not resolve, nothing is appended to found, nonHex
\* or wrongLength.
RECURSIVE C5_Leaves(_)
C5_Leaves(e) ==
  IF e.t = "BinaryExpression" /\ e.operator \in {"+", "|"}
  THEN C5_Leaves(e.left) \o C5_Leaves(e.right)
  ELSE <<e>>

\* a chain of at least two leaves, one of which does not resolve
C5_IsPartialChain(e) ==
  /\ e.t = "BinaryExpression" /\ e.operator \in {"+", "|"}
  /\ \E i \in 1..Len(C5_Leaves(e)) :
        getStringFromNode(C5_Leaves(e)[i], e, Tables).value = Null

C5_OnlyPartialChains(n) ==
  /\ n.t \in {"FunctionDeclaration", "BlockStatement"}
  /\ \E i \in 1..Len(Desc(n)) : Desc(n)[i].t = "ReturnStatement"
  /\ \A i \in 1..Len(Desc(n)) :
        Desc(n)[i].t = "ReturnStatement" => C5_IsPartialChain(Desc(n)[i].argument)

C5_NoPartialKeys ==
  [][(pc = "extract" /\ C5_OnlyPartialChains(Nodes[idx])) =>
       /\ foundKeys' = foundKeys
       /\ nonHexCandidates' = nonHexCandidates
       /\ wrongLengthCandidates' = wrongLengthCandidates]_vars

\* the run is over for a program whose assembler returns a chain with a
\* leaf that resolves and a leaf that does not, the segment functions were
\* collected, and no list holds a candidate
C5_Witness ==
  /\ pc = "done"
  /\ N_a \in DOMAIN segmentFunctionsMap
  /\ \E i \in 1..Len(Nodes) :
        /\ Nodes[i].t = "FunctionDeclaration"
        /\ Nodes[i].id.name = N_asm
        /\ C5_OnlyPartialChains(Nodes[i])
        /\ \E r \in 1..Len(Desc(Nodes[i])) :
              /\ Desc(Nodes[i])[r].t = "ReturnStatement"
              /\ \E l \in 1..Len(C5_Leaves(Desc(Nodes[i])[r].argument)) :
                    getStringFromNode(C5_Leaves(Desc(Nodes[i])[r].argument)[l],
                                      Desc(Nodes[i])[r].argument, Tables).value # Null
  /\ foundKeys = <<>> /\ nonHexCandidates = <<>> /\ wrongLengthCandidates = <<>>

\* C6: when the run is over and the segment functions a, b, c were
\* collected, an assembler function that returns a() + b() + c(), declared
\* at top level or nested in block statements, has exactly one candidate:
\* "aaaabbbbcccc", with the segments a, b, c in this order.
C6_Chain ==
  Bin("+", Bin("+", Call(Id(N_a), <<>>), Call(Id(N_b), <<>>)), Call(Id(N_c), <<>>))

C6_HasAssembler ==
  \E i \in 1..Len(Nodes) :
     /\ Nodes[i].t = "FunctionDeclaration"
     /\ Nodes[i].id.name = N_asm
     /\ Nodes[i].body.body = <<Return(C6_Chain)>>
     /\ \A q \in 1..(i - 1) :
          (q + Size(Nodes[q]) > i) => Nodes[q].t = "BlockStatement"

C6_Entries(list) ==
  {i \in 1..Len(list) : ValueOf(list[i]) = S_aaaa \o S_bbbb \o S_cccc}

C6_ExactlyOneCandidate ==
  (/\ pc = "done"
   /\ {N_a, N_b, N_c} \subseteq DOMAIN segmentFunctionsMap
   /\ C6_HasAssembler) =>
     /\ Cardinality(C6_Entries(foundKeys)) + Cardinality(C6_Entries(nonHexCandidates))
          + Cardinality(C6_Entries(wrongLengthCandidates)) = 1
     /\ \A i \in C6_Entries(wrongLengthCandidates) :
           wrongLengthCandidates[i].segments = <<N_a, N_b, N_c>>

\* C7: when the run is over, the array-join extractor has been run on the
\* tree: a call A.join('') on a variable declared as an array of string
\* literals has its candidate in one of the lists, also when the direct
\* scan had put a key into found.
C7_IsDeclaredStringArray(name) ==
  \E i \in 1..Len(Nodes) :
     /\ Nodes[i].t = "VariableDeclarator"
     /\ Nodes[i].id.name = name
     /\ Nodes[i].init.t = "ArrayExpression"
     /\ \A e \in 1..Len(Nodes[i].init.elements) :
           Nodes[i].init.elements[e].t = "StringLiteral"

C7_JoinCalls ==
  {i \in 1..Len(Nodes) :
     /\ Nodes[i].t = "CallExpression"
     /\ Nodes[i].callee.t = "MemberExpression"
     /\ Nodes[i].callee.property.t = "Identifier"
     /\ Nodes[i].callee.property.name = S_join
     /\ Nodes[i].callee.object.t = "Identifier"
     /\ C7_IsDeclaredStringArray(Nodes[i].callee.object.name)}

C7_EveryExtractorRuns ==
  (pc = "done" /\ C7_JoinCalls # {}) =>
     \E l \in {"found", "nonHex", "wrongLength"} :
        \E i \in 1..Len(CurrentLists[l]) :
           GetType(CurrentLists[l][i]) = "direct_array_join"

\* C8: when the run is over, the lines written to standard output are the
\* key strings of the entries of found, one line per entry, in the order
\* of the list.
C8_StdoutIsFoundKeys ==
  pc = "done" => stdout = [i \in 1..Len(foundKeys) |-> ValueOf(foundKeys[i])]

\* C9: found never holds two entries with the same (key value, extractor
\* type) pair.
C9_NoDuplicateFound == NoDuplicates(foundKeys)

\* C10: nonHex and wrongLength never hold two entries with the same
\* (value, extractor type) pair.
C10_NoDuplicateCandidates ==
  NoDuplicates(nonHexCandidates) /\ NoDuplicates(wrongLengthCandidates)

\* the list the validator's rule assigns to a string
C11_ListOf(str) ==
  IF Flag(validateKey(str, <<>>, "any"), "isValidKey") THEN "found"
  ELSE IF Flag(validateKey(str, <<>>, "any"), "isNonHex") THEN "nonHex"
  ELSE "wrongLength"

C11_CharCodeTypes ==
  {"fromCharCode_array", "fromCharCode_args", "array_map_charcode_parseint"}

\* C11: every string the char-code extractor put into a list is in the list
\* validateKey assigns to it; a hexadecimal string of length 16, 24, 32, 48,
\* 51 or 64 made from character codes is in found.
C11_CharCodeClassifiedByValidator ==
  \A l \in {"found", "nonHex", "wrongLength"} :
     \A i \in 1..Len(CurrentLists[l]) :
        GetType(CurrentLists[l][i]) \in C11_CharCodeTypes
          => l = C11_ListOf(ValueOf(CurrentLists[l][i]))

\* the index a literal of the index array denotes, -1 if it denotes none:
\* a number literal denotes its value, a string literal of decimal digits
\* the number it spells
C12_IndexOf(el) ==
  IF IsT(el, "NumericLiteral") THEN el.value
  ELSE IF IsT(el, "StringLiteral") /\ Len(el.value) = 1
          /\ el.value[1] \in 48..57
  THEN el.value[1] - 48
  ELSE -1

C12_InRange(el, source) ==
  C12_IndexOf(el) >= 0 /\ C12_IndexOf(el) < Len(source)

C12_Gathered(indices, source) ==
  JoinAll([k \in 1..Len(indices) |-> source[C12_IndexOf(indices[k]) + 1].value])

\* C12: a candidate of the idiom I.map(i => A[i]).join('') over the literal
\* arrays I and A is in a list only if every element of I denotes an index
\* of A, and it is then the concatenation of A[I[k]] for every k in order;
\* with an element of I out of range or denoting no index there is none.
C12_IndexedMappingBoundsChecked ==
  \A l \in {"found", "nonHex", "wrongLength"} :
     \A i \in 1..Len(CurrentLists[l]) :
        GetType(CurrentLists[l][i]) = "indexed_array_map_join"
          => /\ \A k \in 1..Len(potentialKeyArrays[N_I].elements) :
                   C12_InRange(potentialKeyArrays[N_I].elements[k],
                               potentialKeyArrays[N_A].elements)
             /\ ValueOf(CurrentLists[l][i]) =
                  C12_Gathered(potentialKeyArrays[N_I].elements,
                               potentialKeyArrays[N_A].elements)

-----------------------------------------------------------------------------
(* Claims about a run of the driver script.                                *)

C13_Failed(e) == e.ev = "end" /\ e.outcome \in {"throws", "empty"}

C13_SomeStageFailed == \E i \in 1..Len(events) : C13_Failed(events[i])

C13_KeysPrinted == {i \in 1..Len(console) : console[i].by = "key"}

\* C13: when the script has ended, its exit status is non-zero exactly when
\* some pass threw or produced no code; the failing pass is the last thing
\* that ran, no key was extracted after it and output.js was not written;
\* a run whose passes all complete and that prints no key exits with 0.
C13_ExitStatusReportsFailure ==
  stage = "exited" =>
    /\ (exitStatus # 0) <=> C13_SomeStageFailed
    /\ \A i \in 1..Len(events) :
          C13_Failed(events[i]) =>
            /\ i = Len(events)
            /\ outputFile = NoCode
            /\ (events[i].pass < 6 => C13_KeysPrinted = {})
    /\ (~C13_SomeStageFailed /\ C13_KeysPrinted = {}) => exitStatus = 0

C13_Witness ==
  /\ stage = "exited" /\ exitStatus = 1
  /\ events[Len(events)].pass = 3 /\ events[Len(events)].outcome = "empty"

C14_Visits(plugin) ==
  {i \in 1..Len(events) : events[i].ev = "visit" /\ events[i].plugin = plugin}

C14_Starts(pass) ==
  {i \in 1..Len(events) : events[i].ev = "start" /\ events[i].pass = pass}

C14_Ends(pass) ==
  {i \in 1..Len(events) : events[i].ev = "end" /\ events[i].pass = pass}

\* C14: the stages run strictly in the order Normalize, Unflatten,
\* Inline-Data, Solve, Inline-String-Table, Simplify, Extract-Key: nothing
\* of a stage happens before the stage before it has finished (so every
\* visit of the normalizer precedes every visit of the unflattener, and the
\* passes follow each other), and each pass is run on the code the pass
\* before it produced, the extraction pass on the code of pass 5.
C14_StagesStrictlyInOrder ==
  /\ \A i \in C14_Visits("normalizeLiterals") :
        \A j \in C14_Visits("controlFlowUnflattener") : i < j
  /\ \A i, j \in 1..Len(events) : i < j => events[i].pass <= events[j].pass
  /\ \A pass \in 2..6 :
        \A j \in C14_Starts(pass) :
           \E i \in C14_Ends(pass - 1) :
              i < j /\ events[j].code = events[i].code

\* C15: with --silent, no line is written by a logger, neither by log, warn
\* and error of the central debug module nor by a DebugLogger of the key
\* extraction, whatever the debug configuration is.
C15_SilentEmitsNothing ==
  silentMode =>
    \A i \in 1..Len(console) : console[i].by \notin {"central", "category"}

-----------------------------------------------------------------------------
(* Claims about the simplifier plugins.                                    *)

C17_Runs(plugin) == {k \in 1..Len(applied) : applied[k].plugin = plugin}

C17_NeverRead(program) ==
  {i \in 1..Len(TreeNodes(program)) :
     LET n == TreeNodes(program)[i]
     IN /\ n.t \in {"FunctionDeclaration", "VariableDeclarator"}
        /\ n.id.name \notin referencedNames(program)}

\* C17: the eliminator goes on until nothing more can be removed: after a
\* run of removeUnusedVariables no function declaration and no variable
\* declarator is left whose binding is never read, so of a chain of
\* functions A -> B -> C with A called by nothing, all three are gone.
C17_EliminatorReachesFixedPoint ==
  \A k \in C17_Runs("removeUnusedVariables") :
     C17_NeverRead(applied[k].after) = {}

C18_Native(operator, a, b) ==
  CASE operator = "<" -> a < b
    [] operator = ">" -> b < a
    [] operator = "<=" -> ~(b < a)
    [] operator = ">=" -> ~(a < b)
    [] operator \in {"==", "==="} -> a = b
    [] operator \in {"!=", "!=="} -> a # b

C18_Foldable(test) ==
  /\ test.t = "BinaryExpression"
  /\ test.left.t = "NumericLiteral" /\ test.right.t = "NumericLiteral"
  /\ test.operator \in {"<", ">", "<=", ">=", "==", "===", "!=", "!=="}

\* C18: when removeDeadBranches visits an if-statement whose test is a
\* binary expression, then, if both operands are numeric literals a, b and
\* the operator is one of <, >, <=, >=, ==, ===, !=, !==, the branch it
\* decides for is the one a op b gives; with any other operator, or an
\* operand that is not a numeric literal, it leaves the if-statement as it
\* is (and a program in which no visit decided is unchanged).
C18_ComparisonFoldingSound ==
  \A k \in C17_Runs("removeDeadBranches") :
     /\ \A j \in 1..Len(applied[k].visits) :
           LET v == applied[k].visits[j]
               test == v.node.test
           IN test.t = "BinaryExpression" =>
                IF C18_Foldable(test)
                THEN /\ v.result.boolean
                     /\ v.result.value =
                          C18_Native(test.operator, test.left.value, test.right.value)
                ELSE ~v.result.boolean /\ v.nodes = <<v.node>>
     /\ (\A j \in 1..Len(applied[k].visits) : ~applied[k].visits[j].result.boolean)
           => applied[k].after = applied[k].before

C18_Witness ==
  \E k \in C17_Runs("removeDeadBranches") :
     /\ \E j \in 1..Len(applied[k].visits) :
           LET v == applied[k].visits[j]
           IN /\ C18_Foldable(v.node.test) /\ v.node.test.operator = "<="
              /\ v.node.test.left.value = v.node.test.right.value
              /\ v.result.value
     /\ Len(applied[k].after) = Len(applied[k].before)

C19_Decidable(test) ==
  \/ test.t \in {"BooleanLiteral", "NumericLiteral"}
  \/ C18_Foldable(test)

C19_DecidableIfs(program) ==
  {i \in 1..Len(TreeNodes(program)) :
     LET n == TreeNodes(program)[i]
     IN n.t = "IfStatement" /\ C19_Decidable(n.test)}

\* C19: the simplifier (normalizeLiterals, then removeDeadBranches) run on
\* its own output changes nothing: after the two plugins have run, another
\* run of either leaves the program as it is; and after a run of
\* removeDeadBranches no if-statement is left, anywhere, whose test is a
\* boolean literal, a numeric literal or a comparison of two numeric
\* literals.
C19_SimplifierIdempotent ==
  /\ \A k \in 3..Len(applied) :
        (/\ applied[k - 2].plugin = "normalizeLiterals"
         /\ applied[k - 1].plugin = "removeDeadBranches"
         /\ applied[k].plugin \in {"normalizeLiterals", "removeDeadBranches"})
        => applied[k].after = applied[k].before
  /\ \A k \in C17_Runs("removeDeadBranches") :
        C19_DecidableIfs(applied[k].after) = {}

C20_Statements(branch) ==
  IF branch.t = "BlockStatement" THEN branch.body ELSE <<branch>>

C20_Expected(node, value) ==
  IF value THEN C20_Statements(node.consequent)
  ELSE IF node.alternate.t # "null" THEN C20_Statements(node.alternate)
  ELSE <<>>

\* C20: removeDeadBranches puts, in place of an if-statement whose test it
\* decides, the statements of the consequent when the test is true, the
\* statements of the alternate when it is false and there is one, and
\* nothing when it is false and there is none; a numeric literal is true
\* iff it is not zero; the statements around an if-statement of the program
\* stay as they are.
C20_BranchPruning ==
  \A k \in C17_Runs("removeDeadBranches") :
     /\ \A j \in 1..Len(applied[k].visits) :
           LET v == applied[k].visits[j]
           IN /\ v.node.test.t = "BooleanLiteral" =>
                   v.result.boolean /\ v.result.value = v.node.test.value
              /\ v.node.test.t = "NumericLiteral" =>
                   v.result.boolean /\ v.result.value = (v.node.test.value # 0)
              /\ v.result.boolean => v.nodes = C20_Expected(v.node, v.result.value)
     /\ \A i \in 1..Len(applied[k].before) :
           (/\ Len(applied[k].visits) = 1
            /\ applied[k].visits[1].result.boolean
            /\ applied[k].before[i].t = "IfStatement")
           => applied[k].after =
                 SubSeq(applied[k].before, 1, i - 1)
                 \o applied[k].visits[1].nodes
                 \o SubSeq(applied[k].before, i + 1, Len(applied[k].before))

-----------------------------------------------------------------------------
(* Further claims about the simplifier plugins.                            *)

C21_Foldable(program) ==
  {i \in 1..Len(TreeNodes(program)) :
     LET n == TreeNodes(program)[i]
     IN /\ n.t \in {"UnaryExpression", "BinaryExpression"}
        /\ evaluate(n, program).confident}

\* C21: after a run of normalizeLiterals no unary or binary expression is
\* left that evaluates with confidence, whatever its value is (a negative
\* number and undefined included): each has been replaced by the literal
\* result; and a program none of whose expressions evaluates with
\* confidence is left as it was.
C21_ConstantFolding ==
  \A k \in C17_Runs("normalizeLiterals") :
     /\ C21_Foldable(applied[k].after) = {}
     /\ C21_Foldable(applied[k].before) = {} => applied[k].after = applied[k].before

-----------------------------------------------------------------------------
(* Claims about aliases.                                                   *)

C22_Next(am, n) == IF AliasHas(am, n) THEN AliasGet(am, n) ELSE n

RECURSIVE C22_After(_, _, _)
C22_After(am, n, steps) ==
  IF steps = 0 THEN n ELSE C22_After(am, C22_Next(am, n), steps - 1)

\* the chain from a name runs into a cycle iff it has not ended after as
\* many steps as the table has entries
C22_Cyclic(am, name) == AliasHas(am, C22_After(am, name, Len(am)))

C22_Expected(am, name) ==
  IF C22_Cyclic(am, name) THEN name ELSE C22_After(am, name, Len(am))

\* C22: each of the two alias resolvers returns, for every alias table and
\* every name, the last name of the chain that starts at the name when the
\* chain ends, and the name it was asked to resolve when the chain reaches
\* a cycle (each call returns, so the resolvers terminate).
C22_AliasResolution ==
  \A i \in 1..Len(calls) :
     calls[i].result = C22_Expected(aliasMap, calls[i].name)

C27_Kept(before, after, from, to) ==
  \A k \in DOMAIN before[from] :
     /\ to \in DOMAIN after
     /\ k \in DOMAIN after[to]
     /\ after[to][k] = before[from][k]

\* C27: the merge loop loses nothing: every property that an object had
\* before the loop is, after it, a property of the object its name
\* resolves to (of the same object when the name is no alias), with the
\* value it had, for every alias table, with self-aliases and cycles.
C27_MergeLosesNothing ==
  [][(pc = "merge" /\ pc' # "merge") =>
       \A n \in DOMAIN objectPropertiesMap :
          C27_Kept(objectPropertiesMap, objectPropertiesMap', n,
                   C22_Expected(aliasMap, n))]_vars

-----------------------------------------------------------------------------
(* Claims about the collectors.                                            *)

\* the functions of the program that have a name: declarations, and
\* function expressions and arrow functions bound by a declarator
C23_Named(n) ==
  \/ IsT(n, "FunctionDeclaration")
  \/ /\ IsT(n, "VariableDeclarator") /\ IsT(n.id, "Identifier")
     /\ n.init.t \in {"FunctionExpression", "ArrowFunctionExpression"}

C23_Functions == {i \in 1..Len(Nodes) : C23_Named(Nodes[i])}

C23_Body(n) == IF IsT(n, "FunctionDeclaration") THEN n.body ELSE n.init.body

\* a value the function can return is the given string literal
C23_IsLiteral(r, str) == IsT(r, "StringLiteral") /\ r.value = str

\* every value the function can return (its body when that is an
\* expression, else the argument of each return statement in it) is the
\* given string literal
C23_AlwaysReturns(n, str) ==
  IF ~IsT(C23_Body(n), "BlockStatement") THEN C23_IsLiteral(C23_Body(n), str)
  ELSE \A j \in 1..Len(Desc(C23_Body(n))) :
          IsT(Desc(C23_Body(n))[j], "ReturnStatement") =>
            C23_IsLiteral(Desc(C23_Body(n))[j].argument, str)

\* C23: a name is in the segment function table only if every return of a
\* function of that name returns one and the same string literal, which is
\* the value recorded; a function whose returns differ is not in the
\* table; no entry is null.
C23_SegmentTableSound ==
  \A name \in DOMAIN segmentFunctionsMap :
     /\ segmentFunctionsMap[name] # Null
     /\ \A i \in C23_Functions :
           Nodes[i].id.name = name =>
             C23_AlwaysReturns(Nodes[i], segmentFunctionsMap[name])

\* the runs of removeUnusedVariables that are the second half of pass 5
C24_Stage ==
  {k \in 2..Len(applied) :
     "pass" \in DOMAIN applied[k] /\ applied[k].plugin = "removeUnusedVariables"}

C24_Declared(program) ==
  {TreeNodes(program)[i].id.name :
     i \in {i \in 1..Len(TreeNodes(program)) :
              TreeNodes(program)[i].t \in
                {"FunctionDeclaration", "VariableDeclarator"}}}

\* the declarations read in the program the stage got, and nowhere in
\* what the dead-branch removal left of it
C24_ReadOnlyInPruned(k) ==
  (C24_Declared(applied[k - 1].after)
     \cap referencedNames(applied[k - 1].before))
  \ referencedNames(applied[k - 1].after)

\* C24: in the simplification stage the unused-declaration removal works
\* on the program the dead-branch removal left, with the bindings counted
\* on that program: a declaration that nothing reads there, among them one
\* whose only reads were in a branch pruned in that stage, is gone when the
\* stage ends.
C24_BindingIndexRefreshed ==
  \A k \in C24_Stage :
     /\ applied[k - 1].plugin = "removeDeadBranches"
     /\ applied[k].before = applied[k - 1].after
     /\ \A name \in C24_Declared(applied[k].before) :
           name \notin referencedNames(applied[k].before)
             => name \notin C24_Declared(applied[k].after)

C24_Witness ==
  \E k \in C24_Stage :
     /\ C24_ReadOnlyInPruned(k) # {}
     /\ C24_ReadOnlyInPruned(k) \cap C24_Declared(applied[k].after) = {}

\* the names the assignments of the program write to
C30_Assigned(program) ==
  {TreeNodes(program)[i].left.name :
     i \in {i \in 1..Len(TreeNodes(program)) :
              /\ TreeNodes(program)[i].t = "AssignmentExpression"
              /\ TreeNodes(program)[i].left.t = "Identifier"}}

C30_ReadStay(k) ==
  \A name \in C24_Declared(applied[k].before) :
     name \in referencedNames(applied[k].before)
       => name \in C24_Declared(applied[k].after)

C30_NoDangling(k) ==
  \A name \in C24_Declared(applied[k].before) \ C24_Declared(applied[k].after) :
     name \notin C30_Assigned(applied[k].after)

\* C30: a run of removeUnusedVariables removes no declaration whose
\* binding is read, and leaves no assignment to a variable whose
\* declaration it removed.
C30_RemovalPreservesMeaning ==
  \A k \in C17_Runs("removeUnusedVariables") :
     C30_ReadStay(k) /\ C30_NoDangling(k)

\* the valid keys handed to handleExtractionResult so far, by position
C26_Valid ==
  {i \in 2..Len(calls) : Flag(calls[i].result, "isValidKey")}

C26_First == calls[MinOf(C26_Valid)].result

\* C26: with findAllCandidates false, once the results are printed and a
\* valid key was among them, the found list holds one entry, the first
\* valid key, and printResults writes that key.
C26_FirstCandidateReported ==
  (pc = "done" /\ ~calls[1].findAllCandidates /\ C26_Valid # {})
    => /\ Len(foundKeys) = 1
       /\ foundKeys[1].key = C26_First.key
       /\ stdout = <<C26_First.key>>

\* Array.prototype.join on strings: the separator between the elements
RECURSIVE C29_Join(_, _)
C29_Join(strs, sep) ==
  IF Len(strs) = 0 THEN <<>>
  ELSE IF Len(strs) = 1 THEN strs[1]
  ELSE strs[1] \o sep \o C29_Join(Tail(strs), sep)

\* join(): the separator is a comma when none is given
C29_Separator(args) == IF Len(args) = 0 THEN <<44>> ELSE args[1].value

C29_IsJoin(n) ==
  /\ IsT(n, "CallExpression") /\ IsT(n.callee, "MemberExpression")
  /\ IsNamed(n.callee.property, S_join)
  /\ \/ Len(n.arguments) = 0
     \/ Len(n.arguments) = 1 /\ IsT(n.arguments[1], "StringLiteral")

C29_IsStringArray(name) ==
  /\ Has(potentialKeyArrays, name)
  /\ AllOfType(potentialKeyArrays[name].elements, "StringLiteral")

\* function (i) { return "..."; } or function (i) { return i; }
C29_IsPlainCallback(f) ==
  /\ IsT(f, "FunctionExpression") /\ Len(f.params) = 1
  /\ Len(f.body.body) = 1 /\ IsT(f.body.body[1], "ReturnStatement")
  /\ \/ IsT(f.body.body[1].argument, "StringLiteral")
     \/ /\ IsT(f.body.body[1].argument, "Identifier")
        /\ f.body.body[1].argument.name = f.params[1].name

C29_Apply(f, value) ==
  IF IsT(f.body.body[1].argument, "StringLiteral")
  THEN f.body.body[1].argument.value ELSE value

\* array.join(...) on a literal array of string literals
C29_DirectJoins ==
  {i \in 1..Len(Nodes) :
     /\ C29_IsJoin(Nodes[i])
     /\ IsT(Nodes[i].callee.object, "Identifier")
     /\ C29_IsStringArray(Nodes[i].callee.object.name)}

\* array.map(f).join(...) on a literal array of string literals
C29_MapJoins ==
  {i \in 1..Len(Nodes) :
     /\ C29_IsJoin(Nodes[i])
     /\ IsMapCall(Nodes[i].callee.object)
     /\ C29_IsStringArray(Nodes[i].callee.object.callee.object.name)
     /\ Len(Nodes[i].callee.object.arguments) = 1
     /\ C29_IsPlainCallback(Nodes[i].callee.object.arguments[1])}

\* the string the call expression at position i evaluates to
C29_Native(i) ==
  IF i \in C29_DirectJoins
  THEN C29_Join(Values(potentialKeyArrays[Nodes[i].callee.object.name].elements),
                C29_Separator(Nodes[i].arguments))
  ELSE LET map == Nodes[i].callee.object
           values == Values(potentialKeyArrays[map.callee.object.name].elements)
       IN C29_Join([e \in 1..Len(values) |-> C29_Apply(map.arguments[1], values[e])],
                   C29_Separator(Nodes[i].arguments))

C29_Candidates(types) ==
  {produced[p].value :
     p \in {p \in 1..Len(produced) : produced[p].type \in types}}

\* the extraction traversal has been at the node at position i
C29_Visited(i) == (pc = "extract" /\ i < idx) \/ pc \in {"print", "done"}

C29_JoinsEqual(joins, types) ==
  \A i \in joins :
     (C29_Visited(i) /\ C29_Candidates(types) # {})
       => C29_Native(i) \in C29_Candidates(types)

\* C29: the candidate the array-join extractor makes of a call
\* array.join(...) or array.map(f).join(...) on a literal array of string
\* literals is the string the call evaluates to, join() without an
\* argument and any callback f included.
C29_JoinCandidatesNative ==
  /\ C29_JoinsEqual(C29_DirectJoins, {"direct_array_join"})
  /\ C29_JoinsEqual(C29_MapJoins, {"array_map_join"})

\* the nodes of ns that give the identifier a literal array, by position
C25_ArrayAssignments(ns, name) ==
  {j \in 1..Len(ns) :
     \/ /\ IsT(ns[j], "VariableDeclarator") /\ IsT(ns[j].id, "Identifier")
        /\ ns[j].id.name = name /\ IsT(ns[j].init, "ArrayExpression")
     \/ /\ IsT(ns[j], "AssignmentExpression") /\ IsT(ns[j].left, "Identifier")
        /\ ns[j].left.name = name /\ IsT(ns[j].right, "ArrayExpression")}

C25_ArrayAt(ns, j) ==
  IF IsT(ns[j], "VariableDeclarator") THEN ns[j].init ELSE ns[j].right

C25_Names(ns) ==
  {ns[j].name : j \in {j \in 1..Len(ns) : IsT(ns[j], "Identifier")}}

\* the collectors have run: the visitor is past them, or at the end
\* without a key from the direct scan
C25_Collected ==
  pc \in {"segments", "extract"} \/ (pc = "print" /\ foundKeys = <<>>)

C25_TableOf(ns, arrays) ==
  /\ \A name \in C25_Names(ns) :
        LET given == C25_ArrayAssignments(ns, name)
        IN IF given = {}
           THEN ~Has(arrays, name)
           ELSE /\ Has(arrays, name)
                /\ arrays[name] = C25_ArrayAt(ns, MaxOf(given))
  /\ \A name \in DOMAIN arrays : name \in C25_Names(ns)

\* C25: once the array collector has run, each identifier that a
\* declaration or an assignment gave a literal array maps to the array of
\* the last such node in traversal order, a later one replacing an
\* earlier one; an identifier never given a literal array is not in the
\* table.
C25_ArrayTable ==
  C25_Collected => C25_TableOf(Nodes, potentialKeyArrays)

C25_Replaced(ns, arrays) ==
  \E name \in DOMAIN arrays :
     LET given == C25_ArrayAssignments(ns, name)
     IN /\ Cardinality(given) = 2
        /\ arrays[name] = C25_ArrayAt(ns, MaxOf(given))
        /\ arrays[name] # C25_ArrayAt(ns, MinOf(given))

C25_Witness ==
  C25_Collected /\ C25_Replaced(Nodes, potentialKeyArrays)

\* C28: the collection of segment functions never fails: it never raises
\* an error, and once it is over (the extractors run) every named
\* function of the program is in the table or among the skipped; a
\* function whose string-literal return is nested deeper than its
\* top-level statements is in the table.
C28_CollectionNeverFails ==
  /\ pc # "crashed"
  /\ pc = "extract" =>
       \A i \in C23_Functions :
          \/ Has(segmentFunctionsMap, Nodes[i].id.name)
          \/ Nodes[i].id.name \in skippedFunctions

=============================================================================
